---- MODULE Spec2Model ----
(***************************************************************************)
(* Model of the budget list page (js/index.js): the canonical collection   *)
(* originalData, the derived view filteredData, the rendered table, the    *)
(* inline-edit state and the asynchronous calls to the hosted store.       *)
(*                                                                         *)
(* JavaScript objects have identity: the same item object is shared by     *)
(* originalData, filteredData and the closures of the rendered rows, and   *)
(* the handlers mutate it in place.  The model therefore keeps a heap of   *)
(* item objects and a table of row elements, both addressed by reference.  *)
(***************************************************************************)
EXTENDS Integers, Sequences, FiniteSets

(***************************************************************************)
(* JavaScript values.  Every value is a record of the same shape so that   *)
(* strict equality (===) is record equality.  Strings are sequences of     *)
(* one-character strings.                                                  *)
(***************************************************************************)
Null == [t |-> "null", n |-> 0, s |-> <<>>]
Undefined == [t |-> "undefined", n |-> 0, s |-> <<>>]
NaN == [t |-> "nan", n |-> 0, s |-> <<>>]
Num(n) == [t |-> "num", n |-> n, s |-> <<>>]
Str(s) == [t |-> "str", n |-> 0, s |-> s]

IsNumber(v) == v.t = "num" \/ v.t = "nan"
IsString(v) == v.t = "str"
IsNullish(v) == v.t = "null" \/ v.t = "undefined"

\* JavaScript truthiness: null, undefined, NaN, 0 and '' are falsy.
Truthy(v) ==
  CASE v.t = "num" -> v.n # 0
    [] v.t = "str" -> v.s # <<>>
    [] OTHER -> FALSE

\* a === b
StrictEquals(a, b) == a = b /\ a.t # "nan"

\* a || b
OrElse(a, b) == IF Truthy(a) THEN a ELSE b

(***************************************************************************)
(* Characters, in ASCII order.                                             *)
(***************************************************************************)
Ascii ==
  << " ", "-", ".",
     "0", "1", "2", "3", "4", "5", "6", "7", "8", "9",
     "A", "B", "C", "D", "E", "F", "G", "H", "I", "J", "K", "L", "M",
     "N", "O", "P", "Q", "R", "S", "T", "U", "V", "W", "X", "Y", "Z",
     "a", "b", "c", "d", "e", "f", "g", "h", "i", "j", "k", "l", "m",
     "n", "o", "p", "q", "r", "s", "t", "u", "v", "w", "x", "y", "z" >>

Chars == {Ascii[i] : i \in 1..Len(Ascii)}
CodeTable == [c \in Chars |-> CHOOSE i \in 1..Len(Ascii) : Ascii[i] = c]
CharCode(c) == CodeTable[c]

Digits == <<"0", "1", "2", "3", "4", "5", "6", "7", "8", "9">>
IsDigit(c) == \E i \in 1..10 : Digits[i] = c
DigitValue(c) == (CHOOSE i \in 1..10 : Digits[i] = c) - 1

IsUpper(c) == CharCode(c) >= CharCode("A") /\ CharCode(c) <= CharCode("Z")
LowerTable == [c \in Chars |-> IF IsUpper(c) THEN Ascii[CharCode(c) + 26] ELSE c]
LowerChar(c) == LowerTable[c]

\* String.prototype.toLowerCase
ToLowerCase(s) == [i \in 1..Len(s) |-> LowerChar(s[i])]

\* String.prototype.trim
RECURSIVE TrimStart(_)
TrimStart(s) ==
  IF s # <<>> /\ Head(s) = " " THEN TrimStart(Tail(s)) ELSE s
RECURSIVE TrimEnd(_)
TrimEnd(s) ==
  IF s # <<>> /\ s[Len(s)] = " " THEN TrimEnd(SubSeq(s, 1, Len(s) - 1)) ELSE s
Trim(s) == TrimEnd(TrimStart(s))

\* String.prototype.startsWith
StartsWith(s, p) == Len(p) <= Len(s) /\ SubSeq(s, 1, Len(p)) = p

\* String.prototype.includes
Includes(s, p) ==
  \E i \in 0..Len(s) : i + Len(p) <= Len(s) /\ SubSeq(s, i + 1, i + Len(p)) = p

\* sa < sb on strings: lexicographic by character code.
RECURSIVE StrLess(_, _)
StrLess(a, b) ==
  IF b = <<>> THEN FALSE
  ELSE IF a = <<>> THEN TRUE
  ELSE IF Head(a) # Head(b) THEN CharCode(Head(a)) < CharCode(Head(b))
  ELSE StrLess(Tail(a), Tail(b))

\* Number -> String for integers.
RECURSIVE NatToString(_)
NatToString(n) ==
  IF n < 10 THEN <<Digits[n + 1]>>
  ELSE NatToString(n \div 10) \o <<Digits[(n % 10) + 1]>>
NumberToString(n) == IF n < 0 THEN <<"-">> \o NatToString(-n) ELSE NatToString(n)

\* String(v)
JsString(v) ==
  CASE v.t = "str" -> v.s
    [] v.t = "num" -> NumberToString(v.n)
    [] v.t = "null" -> <<"n", "u", "l", "l">>
    [] v.t = "nan" -> <<"N", "a", "N">>
    [] OTHER -> <<"u", "n", "d", "e", "f", "i", "n", "e", "d">>

\* The longest prefix of s made of digits.
RECURSIVE DigitPrefix(_)
DigitPrefix(s) ==
  IF s # <<>> /\ IsDigit(Head(s)) THEN <<Head(s)>> \o DigitPrefix(Tail(s)) ELSE <<>>

RECURSIVE DigitsValue(_, _)
DigitsValue(s, acc) ==
  IF s = <<>> THEN acc ELSE DigitsValue(Tail(s), 10 * acc + DigitValue(Head(s)))

\* parseFloat on the integer-valued strings a number input can hold:
\* optional sign, then digits; anything else yields NaN.
ParseFloat(s) ==
  LET t == TrimStart(s)
      neg == t # <<>> /\ Head(t) = "-"
      u == IF neg THEN Tail(t) ELSE t
      d == DigitPrefix(u)
  IN IF d = <<>> THEN NaN
     ELSE Num(IF neg THEN 0 - DigitsValue(d, 0) ELSE DigitsValue(d, 0))

\* Number.prototype.toFixed(2) for integers.
ToFixed2(n) == NumberToString(n) \o <<".", "0", "0">>


(***************************************************************************)
(* Items.  An item object has the fields written by transformItem; the     *)
(* blank row of addNewItemRow has no html key (Undefined).                 *)
(***************************************************************************)
TempPrefix == <<"n", "e", "w", "-", "i", "t", "e", "m", "-", "t", "e", "m", "p", "-">>

\* typeof id === 'string' && id.startsWith('new-item-temp-')
IsTempId(id) == IsString(id) /\ StartsWith(id.s, TempPrefix)

\* transformItem: database row (snake_case) to application item (camelCase)
transformItem(dbItem) ==
  [ id |-> dbItem.id,
    category |-> dbItem.category,
    item |-> dbItem.item,
    required |-> dbItem.required,
    notes |-> dbItem.notes,
    unitCost |-> dbItem.unit_cost,
    quantity |-> dbItem.quantity,
    subTotal |-> dbItem.sub_total,
    mdContent |-> dbItem.md_content,
    html |-> dbItem.html ]

\* transformToDb coalescing only null and undefined (??) to null
transformToDbNullish(item) ==
  [ category |-> item.category,
    item |-> item.item,
    required |-> item.required,
    notes |-> item.notes,
    unit_cost |-> IF IsNullish(item.unitCost) THEN Null ELSE item.unitCost,
    quantity |-> IF IsNullish(item.quantity) THEN Null ELSE item.quantity,
    sub_total |-> IF IsNullish(item.subTotal) THEN Null ELSE item.subTotal,
    md_content |-> OrElse(item.mdContent, Null),
    html |-> Null ]

\* transformToDb: application item to the payload of an insert
transformToDb(item) ==
  [ category |-> item.category,
    item |-> item.item,
    required |-> item.required,
    notes |-> item.notes,
    unit_cost |-> OrElse(item.unitCost, Null),
    quantity |-> OrElse(item.quantity, Null),
    sub_total |-> OrElse(item.subTotal, Null),
    md_content |-> OrElse(item.mdContent, Null),
    html |-> Null ]

\* The row the store returns for an insert of payload p under a fresh id.
InsertedRow(p, id) ==
  [ id |-> Num(id),
    category |-> p.category,
    item |-> p.item,
    required |-> p.required,
    notes |-> p.notes,
    unit_cost |-> p.unit_cost,
    quantity |-> p.quantity,
    sub_total |-> p.sub_total,
    md_content |-> p.md_content,
    html |-> p.html ]

\* The blank item of addNewItemRow; now is the value of Date.now().
NewItem(now) ==
  [ id |-> Str(TempPrefix \o NumberToString(now)),
    category |-> Str(<<>>),
    item |-> Str(<<>>),
    required |-> Str(<<"N", "o">>),
    notes |-> Str(<<>>),
    unitCost |-> Null,
    quantity |-> Null,
    subTotal |-> Null,
    mdContent |-> Str(<<>>),
    html |-> Undefined ]

\* item[field] for the fields the list page reads by name
Get(item, field) ==
  CASE field = "id" -> item.id
    [] field = "category" -> item.category
    [] field = "item" -> item.item
    [] field = "required" -> item.required
    [] field = "unitCost" -> item.unitCost
    [] field = "quantity" -> item.quantity
    [] field = "subTotal" -> item.subTotal
    [] OTHER -> Undefined

\* { ...item, [field]: value }
Put(item, field, value) ==
  CASE field = "category" -> [item EXCEPT !.category = value]
    [] field = "item" -> [item EXCEPT !.item = value]
    [] field = "required" -> [item EXCEPT !.required = value]
    [] field = "unitCost" -> [item EXCEPT !.unitCost = value]
    [] field = "quantity" -> [item EXCEPT !.quantity = value]
    [] OTHER -> item

\* camelToSnake on the editable field names
camelToSnake(field) ==
  CASE field = "unitCost" -> "unit_cost"
    [] OTHER -> field

\* calculateSubTotal
calculateSubTotal(item) ==
  IF IsNumber(item.subTotal) THEN item.subTotal.n
  ELSE LET cost == IF IsNumber(item.unitCost) THEN item.unitCost.n ELSE 0
           qty == IF IsNumber(item.quantity) THEN item.quantity.n ELSE 1
       IN cost * qty

\* formatCurrency(value, raw)
formatCurrency(value, raw) ==
  IF value.t # "num" THEN <<>>
  ELSE IF raw THEN ToFixed2(value.n) ELSE <<"$">> \o ToFixed2(value.n)


(***************************************************************************)
(* Program state.                                                          *)
(***************************************************************************)
VARIABLES
  heap,               \* item objects by reference
  originalData,       \* canonical collection: sequence of references
  filteredData,       \* derived view: sequence of references
  currentSort,        \* [key, asc]
  currentEditingRow,  \* reference of a row element, or NoRow
  rows,               \* row elements (tr) by reference
  tbody,              \* the rows attached to the table body, in order
  searchInput,        \* value of #searchInput
  categoryFilter,     \* value of #categoryFilter
  requiredFilter,     \* checked state of #requiredFilter
  categoryOptions,    \* option values of #categoryFilter
  totalCount,         \* text of #totalCount
  visibleCount,       \* text of #visibleCount
  totalCost,          \* text of #totalCost
  metricTotalCost,    \* text of #metricTotalCost
  errorBanner,        \* message of the showError call of the last handler
  pending,            \* store calls in flight, in order of issue
  storeIds,           \* ids of the rows held by the store
  nextId,             \* next value of the store's id sequence
  clock,              \* Date.now()
  lastEvent,          \* the event handled last
  scope,              \* what the user does in this session (never changes)
  itemPage,           \* the state of the item details page (item.js)
  repo                \* the repository call made last and what it returned

vars ==
  << heap, originalData, filteredData, currentSort, currentEditingRow, rows,
     tbody, searchInput, categoryFilter, requiredFilter, categoryOptions,
     totalCount, visibleCount, totalCost, metricTotalCost, errorBanner,
     pending, storeIds, nextId, clock, lastEvent, scope, itemPage, repo >>

NoRow == 0
NoObj == 0
NoBanner == [msg |-> "", field |-> ""]

\* The part of the state the handlers of the page read and write.
Cur ==
  [ heap |-> heap,
    originalData |-> originalData,
    filteredData |-> filteredData,
    currentSort |-> currentSort,
    currentEditingRow |-> currentEditingRow,
    rows |-> rows,
    tbody |-> tbody,
    searchInput |-> searchInput,
    categoryFilter |-> categoryFilter,
    requiredFilter |-> requiredFilter,
    totalCount |-> totalCount,
    visibleCount |-> visibleCount,
    totalCost |-> totalCost,
    metricTotalCost |-> metricTotalCost,
    errorBanner |-> NoBanner,
    pending |-> pending ]

SetMax(S) == IF S = {} THEN 0 ELSE CHOOSE m \in S : \A x \in S : x <= m

Extend(f, k, v) == [x \in DOMAIN f \cup {k} |-> IF x = k THEN v ELSE f[x]]

\* A fresh object / row reference.
FreshObj(S) == SetMax(DOMAIN S.heap) + 1
FreshRow(S) == SetMax(DOMAIN S.rows) + 1

RECURSIVE SumSeq(_)
SumSeq(q) == IF q = <<>> THEN 0 ELSE Head(q) + SumSeq(Tail(q))

\* showError(message)
showError(S, message) == [S EXCEPT !.errorBanner = message]

MsgNewItemExists ==
  [msg |-> "Please complete or delete the existing new item first.", field |-> ""]
MsgCreateFailed == [msg |-> "Failed to create item. Please try again.", field |-> ""]
MsgDeleteFailed == [msg |-> "Failed to delete item. Please try again.", field |-> ""]
MsgUpdateFailed(field) == [msg |-> "Failed to update ${field}. Please try again.", field |-> field]

(***************************************************************************)
(* Filter / sort / render pipeline.                                        *)
(***************************************************************************)
\* The predicate of applyFilters taking every required value that contains
\* a 'y' for a required one.
MatchesFiltersContains(S, item) ==
  LET searchTerm == ToLowerCase(Trim(S.searchInput))
      matchesSearch ==
        \/ searchTerm = <<>>
        \/ Truthy(item.item) /\ IsString(item.item)
             /\ Includes(ToLowerCase(item.item.s), searchTerm)
        \/ Truthy(item.category) /\ IsString(item.category)
             /\ Includes(ToLowerCase(item.category.s), searchTerm)
      matchesCategory ==
        S.categoryFilter = <<>> \/ StrictEquals(item.category, Str(S.categoryFilter))
      matchesRequired ==
        \/ ~S.requiredFilter
        \/ Truthy(item.required) /\ IsString(item.required)
             /\ Includes(ToLowerCase(item.required.s), <<"y">>)
  IN matchesSearch /\ matchesCategory /\ matchesRequired

\* The predicate of applyFilters for one item.
MatchesFilters(S, item) ==
  LET searchTerm == ToLowerCase(Trim(S.searchInput))
      matchesSearch ==
        \/ searchTerm = <<>>
        \/ Truthy(item.item) /\ IsString(item.item)
             /\ Includes(ToLowerCase(item.item.s), searchTerm)
        \/ Truthy(item.category) /\ IsString(item.category)
             /\ Includes(ToLowerCase(item.category.s), searchTerm)
      matchesCategory ==
        S.categoryFilter = <<>> \/ StrictEquals(item.category, Str(S.categoryFilter))
      matchesRequired ==
        \/ ~S.requiredFilter
        \/ Truthy(item.required) /\ IsString(item.required)
             /\ StartsWith(ToLowerCase(item.required.s), <<"y">>)
  IN matchesSearch /\ matchesCategory /\ matchesRequired

\* applyFilters
applyFilters(S) ==
  LET Keep(o) == MatchesFilters(S, S.heap[o])
  IN [S EXCEPT !.filteredData = SelectSeq(S.originalData, Keep)]

\* The comparison of strings that never answers 0: equal strings compare
\* like sa > sb.
CompareStringsStrict(sa, sb, asc) ==
  IF StrLess(sa, sb) THEN (IF asc THEN 0 - 1 ELSE 1)
  ELSE (IF asc THEN 1 ELSE 0 - 1)

\* The comparator of sortData: negative when a sorts before b.
\* String(va).toLowerCase() against String(vb).toLowerCase()
CompareStrings(sa, sb, asc) ==
  IF StrLess(sa, sb) THEN (IF asc THEN 0 - 1 ELSE 1)
  ELSE IF StrLess(sb, sa) THEN (IF asc THEN 1 ELSE 0 - 1)
  ELSE 0

\* The comparator comparing the string forms of numbers too
CompareValuesAsText(va, vb, asc) ==
  CompareStrings(ToLowerCase(JsString(va)), ToLowerCase(JsString(vb)), asc)

\* if (typeof va === 'number' && typeof vb === 'number') ... else strings
CompareValues(va, vb, asc) ==
  IF IsNumber(va) /\ IsNumber(vb)
    THEN (IF asc THEN va.n - vb.n ELSE vb.n - va.n)
  ELSE CompareStrings(ToLowerCase(JsString(va)), ToLowerCase(JsString(vb)), asc)

\* The value sortData compares an item by: the computed sub-total or the
\* property, with '' for null and undefined.
SortValue(a, key) ==
  IF key = "subTotal" THEN Num(calculateSubTotal(a))
  ELSE IF IsNullish(Get(a, key)) THEN Str(<<>>)
  ELSE Get(a, key)

Compare(a, b, key, asc) == CompareValues(SortValue(a, key), SortValue(b, key), asc)

\* Array.prototype.sort is stable: insertion keeps equal elements in order.
RECURSIVE InsertSorted(_, _, _, _, _)
InsertSorted(h, q, o, key, asc) ==
  IF q = <<>> THEN <<o>>
  ELSE IF Compare(h[q[Len(q)]], h[o], key, asc) > 0
    THEN InsertSorted(h, SubSeq(q, 1, Len(q) - 1), o, key, asc) \o <<q[Len(q)]>>
  ELSE q \o <<o>>

RECURSIVE SortSeq(_, _, _, _)
SortSeq(h, q, key, asc) ==
  IF q = <<>> THEN <<>>
  ELSE InsertSorted(h, SortSeq(h, SubSeq(q, 1, Len(q) - 1), key, asc),
                    q[Len(q)], key, asc)

\* sortData ignoring the direction of the sort state
sortDataAscending(S) ==
  [S EXCEPT !.filteredData = SortSeq(S.heap, S.filteredData, S.currentSort.key, TRUE)]

\* sortData: sorts filteredData in place
sortData(S) ==
  [S EXCEPT !.filteredData =
     SortSeq(S.heap, S.filteredData, S.currentSort.key, S.currentSort.asc)]

\* updateSummary (with the total of updateMetrics; the other metric cards
\* are functions of that total and of the constant BUDGET)
updateSummary(S) ==
  LET Real(o) == ~IsTempId(S.heap[o].id)
      realOriginalData == SelectSeq(S.originalData, Real)
      realFilteredData == SelectSeq(S.filteredData, Real)
      total == SumSeq([i \in 1..Len(S.filteredData) |->
                         calculateSubTotal(S.heap[S.filteredData[i]])])
      metric == SumSeq([i \in 1..Len(realOriginalData) |->
                          calculateSubTotal(S.heap[realOriginalData[i]])])
  IN [S EXCEPT !.totalCount = Len(realOriginalData),
               !.visibleCount = Len(realFilteredData),
               !.totalCost = formatCurrency(Num(total), TRUE),
               !.metricTotalCost = <<"$">> \o formatCurrency(Num(metric), TRUE)]

\* Row elements.  shown: the item the row was rendered from (NoObj for the
\* "No items found" row); bound: the item the row's buttons and inputs
\* close over; editing: class row-editing; inputs: the edit inputs.
NoInputs ==
  [ has |-> FALSE, category |-> <<>>, item |-> <<>>, required |-> <<>>,
    unitCost |-> <<>>, quantity |-> <<>> ]

DisplayRow(o) == [shown |-> o, bound |-> o, editing |-> FALSE, inputs |-> NoInputs]

\* renderTable after sortData(): replaces the table body by new rows
RenderRows(S1) ==
  LET n == Len(S1.filteredData)
      base == SetMax(DOMAIN S1.rows)
      fresh == IF n = 0 THEN {base + 1} ELSE (base + 1)..(base + n)
      newRows ==
        [r \in DOMAIN S1.rows \cup fresh |->
           IF r \in fresh
             THEN (IF n = 0 THEN DisplayRow(NoObj)
                   ELSE DisplayRow(S1.filteredData[r - base]))
           ELSE S1.rows[r]]
      newBody == IF n = 0 THEN <<base + 1>> ELSE [i \in 1..n |-> base + i]
  IN updateSummary([S1 EXCEPT !.rows = newRows, !.tbody = newBody])

\* renderTable: sorts the view, then renders it
renderTable(S) == RenderRows(sortData(S))

(***************************************************************************)
(* Inline editing.                                                         *)
(***************************************************************************)
EditFields == {"category", "item", "required", "unitCost", "quantity"}
NumericFields == {"unitCost", "quantity"}

\* The options of the required select, in document order.
RequiredOptions ==
  << <<"Y", "e", "s">>, <<"N", "o">>, <<"M", "a", "y", "b", "e">>,
     <<"O", "p", "t", "i", "o", "n", "a", "l">> >>

IsOption(v) == \E i \in 1..Len(RequiredOptions) : RequiredOptions[i] = v

\* The value a select shows after its options were appended with
\* selected = (opt === wanted): the wanted option, else the first option.
SelectedOption(wanted) == IF IsOption(wanted) THEN wanted ELSE RequiredOptions[1]

\* select.value = v: an option of that value is selected, else none ('').
AssignSelect(v) == IF IsOption(v) THEN v ELSE <<>>

InputOf(inputs, field) ==
  CASE field = "category" -> inputs.category
    [] field = "item" -> inputs.item
    [] field = "required" -> inputs.required
    [] field = "unitCost" -> inputs.unitCost
    [] OTHER -> inputs.quantity

SetInput(inputs, field, v) ==
  CASE field = "category" -> [inputs EXCEPT !.category = v]
    [] field = "item" -> [inputs EXCEPT !.item = v]
    [] field = "required" -> [inputs EXCEPT !.required = v]
    [] field = "unitCost" -> [inputs EXCEPT !.unitCost = v]
    [] OTHER -> [inputs EXCEPT !.quantity = v]

\* The inputs enterEditMode builds from an item.
InputsFor(item) ==
  [ has |-> TRUE,
    category |-> JsString(OrElse(item.category, Str(<<>>))),
    item |-> JsString(OrElse(item.item, Str(<<>>))),
    required |-> SelectedOption(JsString(OrElse(item.required, Str(<<"N", "o">>)))),
    unitCost |-> IF IsNullish(item.unitCost) THEN <<>> ELSE JsString(item.unitCost),
    quantity |-> IF IsNullish(item.quantity) THEN <<>> ELSE JsString(item.quantity) ]

\* exitEditMode(rowElement, save)
exitEditMode(S, r) ==
  IF r = NoRow THEN S
  ELSE renderTable([S EXCEPT !.rows[r].editing = FALSE,
                             !.currentEditingRow = NoRow])

\* enterEditMode(rowElement, item).  The "No items found" row has a single
\* cell: cells[1] is undefined and the function throws after the edit state
\* was set.
BeginEdit(S1, r, o) ==
  LET S2 == [S1 EXCEPT !.currentEditingRow = r, !.rows[r].editing = TRUE]
  IN IF S2.rows[r].shown = NoObj THEN S2
     ELSE [S2 EXCEPT !.rows[r].bound = o,
                     !.rows[r].inputs = InputsFor(S2.heap[o])]

enterEditMode(S, r, o) ==
  BeginEdit(IF S.currentEditingRow # NoRow /\ S.currentEditingRow # r
              THEN exitEditMode(S, S.currentEditingRow)
              ELSE S,
            r, o)

\* A store call in flight.  item, row, field, value, oldValue: what the
\* continuation of handleFieldBlur closes over; id: the id sent to the store;
\* payload: the body of an insert; result, created: the store's answer.
NoPayload == transformToDb(NewItem(0))
NoItem == NewItem(0)

Call(kind, o, id, field, value, oldValue, r, payload) ==
  [ kind |-> kind, item |-> o, id |-> id, field |-> field, value |-> value,
    oldValue |-> oldValue, row |-> r, payload |-> payload,
    result |-> "", created |-> NoItem ]

\* The value handleFieldBlur reads from an input.
NewValue(field, text) ==
  LET newValue == Trim(text)
  IN IF field \in NumericFields
       THEN (IF newValue = <<>> THEN Null ELSE ParseFloat(newValue))
     ELSE Str(newValue)

\* handleFieldBlur(e, item), up to the first await.
\* handleFieldBlur creating the record as soon as the category is filled in
SaveFieldEarly(S, r, field, newValue) ==
  LET o == S.rows[r].bound
      item == S.heap[o]
      oldValue == Get(item, field)
      isNewItem == IsTempId(item.id)
      updatedItem == Put(item, field, newValue)
  IN IF StrictEquals(oldValue, newValue) THEN S
     ELSE IF isNewItem
       THEN LET S1 == [S EXCEPT !.heap[o] = updatedItem]
            IN IF Truthy(updatedItem.category)
                 THEN [S1 EXCEPT !.pending = Append(@,
                         Call("create", o, Null, field, newValue, oldValue, r,
                              transformToDb(updatedItem)))]
               ELSE S1
     ELSE [S EXCEPT !.pending = Append(@,
             Call("update", o, item.id, camelToSnake(field), newValue, oldValue,
                  r, NoPayload))]

SaveField(S, r, field, newValue) ==
  LET o == S.rows[r].bound
      item == S.heap[o]
      oldValue == Get(item, field)
      isNewItem == IsTempId(item.id)
      updatedItem == Put(item, field, newValue)
  IN IF StrictEquals(oldValue, newValue) THEN S
     ELSE IF isNewItem
       THEN LET S1 == [S EXCEPT !.heap[o] = updatedItem]
            IN IF Truthy(updatedItem.category) /\ Truthy(updatedItem.item)
                 THEN [S1 EXCEPT !.pending = Append(@,
                         Call("create", o, Null, field, newValue, oldValue, r,
                              transformToDb(updatedItem)))]
               ELSE S1
     ELSE [S EXCEPT !.pending = Append(@,
             Call("update", o, item.id, camelToSnake(field), newValue, oldValue,
                  r, NoPayload))]

handleFieldBlur(S, r, field) ==
  SaveField(S, r, field, NewValue(field, InputOf(S.rows[r].inputs, field)))

\* originalData.filter(item => item.id !== id)
RemoveById(S, id) ==
  LET Other(o) == ~StrictEquals(S.heap[o].id, id)
  IN [S EXCEPT !.originalData = SelectSeq(S.originalData, Other)]

\* The index of findIndex(i => i.id === id), or 0 for -1.
FindIndex(S, id) ==
  IF \E i \in 1..Len(S.originalData) : StrictEquals(S.heap[S.originalData[i]].id, id)
    THEN CHOOSE i \in 1..Len(S.originalData) :
           /\ StrictEquals(S.heap[S.originalData[i]].id, id)
           /\ \A j \in 1..(i - 1) : ~StrictEquals(S.heap[S.originalData[j]].id, id)
  ELSE 0

\* The continuation of a create that adds the returned record in front
\* instead of replacing the blank row.
createCompletedUnshift(S, c) ==
  IF c.result = "ok"
    THEN LET created == FreshObj(S)
             S1 == [S EXCEPT !.heap = Extend(@, created, c.created),
                             !.originalData = <<created>> \o @]
             S3 == [S1 EXCEPT !.heap[c.item] = c.created]
         IN renderTable(applyFilters(S3))
  ELSE IF c.result = "error" THEN showError(S, MsgCreateFailed)
  ELSE S

\* The continuation of a create that drops the blank row and adds the
\* returned record at the end.
createCompletedAppend(S, c) ==
  IF c.result = "ok"
    THEN LET created == FreshObj(S)
             S1 == RemoveById([S EXCEPT !.heap = Extend(@, created, c.created)],
                              S.heap[c.item].id)
             S3 == [S1 EXCEPT !.heap[c.item] = c.created,
                              !.originalData = @ \o <<created>>]
         IN renderTable(applyFilters(S3))
  ELSE IF c.result = "error" THEN showError(S, MsgCreateFailed)
  ELSE S

\* The continuation of a create that gives up the blank row when the
\* create failed.
createCompletedDrop(S, c) ==
  IF c.result = "ok"
    THEN LET created == FreshObj(S)
             S1 == [S EXCEPT !.heap = Extend(@, created, c.created)]
             index == FindIndex(S1, S1.heap[c.item].id)
             S2 == IF index # 0
                     THEN [S1 EXCEPT !.originalData[index] = created]
                     ELSE S1
             S3 == [S2 EXCEPT !.heap[c.item] = c.created]
         IN renderTable(applyFilters(S3))
  ELSE showError(renderTable(applyFilters(RemoveById(S, S.heap[c.item].id))),
                 MsgCreateFailed)

\* handleFieldBlur after `await createItem(item)` returned for call c.
createCompleted(S, c) ==
  IF c.result = "ok"
    THEN LET created == FreshObj(S)
             S1 == [S EXCEPT !.heap = Extend(@, created, c.created)]
             index == FindIndex(S1, S1.heap[c.item].id)
             S2 == IF index # 0
                     THEN [S1 EXCEPT !.originalData[index] = created]
                     ELSE S1
             S3 == [S2 EXCEPT !.heap[c.item] = c.created]
         IN renderTable(applyFilters(S3))
  ELSE IF c.result = "error" THEN showError(S, MsgCreateFailed)
  ELSE S

\* The field of the application item a call's column name stands for.
AppField(c) == IF c.field = "unit_cost" THEN "unitCost" ELSE c.field

\* The continuation of an update that copies the item into the collection
\* before it writes the saved value.
updateCompletedStale(S, c) ==
  LET field == AppField(c)
  IN IF c.result = "ok"
       THEN LET S1 == [S EXCEPT !.heap[c.item] = Put(@, field, c.value)]
                index == FindIndex(S1, S1.heap[c.item].id)
                copy == FreshObj(S1)
                S2 == IF index # 0
                        THEN [S1 EXCEPT
                                !.heap = Extend(@, copy, S.heap[c.item]),
                                !.originalData[index] = copy]
                        ELSE S1
            IN updateSummary(S2)
     ELSE LET reverted ==
                IF field \in NumericFields
                  THEN (IF IsNullish(c.oldValue) THEN <<>> ELSE JsString(c.oldValue))
                ELSE IF field = "required"
                  THEN AssignSelect(JsString(OrElse(c.oldValue, Str(<<>>))))
                ELSE JsString(OrElse(c.oldValue, Str(<<>>)))
          IN showError([S EXCEPT !.rows[c.row].inputs = SetInput(@, field, reverted)],
                       MsgUpdateFailed(field))

\* handleFieldBlur after `await updateItemField(...)` returned for call c.
updateCompleted(S, c) ==
  LET field == AppField(c)
  IN IF c.result = "ok"
       THEN LET S1 == [S EXCEPT !.heap[c.item] = Put(@, field, c.value)]
                index == FindIndex(S1, S1.heap[c.item].id)
                copy == FreshObj(S1)
                S2 == IF index # 0
                        THEN [S1 EXCEPT
                                !.heap = Extend(@, copy,
                                           Put(S1.heap[S1.originalData[index]], field, c.value)),
                                !.originalData[index] = copy]
                        ELSE S1
            IN updateSummary(S2)
     ELSE LET reverted ==
                IF field \in NumericFields
                  THEN (IF IsNullish(c.oldValue) THEN <<>> ELSE JsString(c.oldValue))
                ELSE IF field = "required"
                  THEN AssignSelect(JsString(OrElse(c.oldValue, Str(<<>>))))
                ELSE JsString(OrElse(c.oldValue, Str(<<>>)))
          IN showError([S EXCEPT !.rows[c.row].inputs = SetInput(@, field, reverted)],
                       MsgUpdateFailed(field))

\* The continuation of a delete that removes the item whatever deleteItem
\* returned.
deleteCompletedAnyway(S, c) ==
  IF c.result = "ok" THEN renderTable(applyFilters(RemoveById(S, c.id)))
  ELSE showError(renderTable(applyFilters(RemoveById(S, c.id))), MsgDeleteFailed)

\* handleDelete after `await deleteItem(id)` returned for call c.
deleteCompleted(S, c) ==
  IF c.result = "ok" THEN renderTable(applyFilters(RemoveById(S, c.id)))
  ELSE showError(S, MsgDeleteFailed)

\* addNewItemRow after renderTable(): firstRow = tbody.querySelector('tr'),
\* enterEditMode(firstRow, newItem)
EditFirstRow(S2, newItem) == enterEditMode(S2, S2.tbody[1], newItem)

\* addNewItemRow without the check for an existing blank row
addNewItemRowUnchecked(S, now) ==
  LET newItem == FreshObj(S)
      S1 == [S EXCEPT !.heap = Extend(@, newItem, NewItem(now)),
                      !.originalData = <<newItem>> \o @]
  IN EditFirstRow(renderTable(applyFilters(S1)), newItem)

\* addNewItemRow
addNewItemRow(S, now) ==
  LET hasNewItem ==
        \E i \in 1..Len(S.originalData) : IsTempId(S.heap[S.originalData[i]].id)
      newItem == FreshObj(S)
      S1 == [S EXCEPT !.heap = Extend(@, newItem, NewItem(now)),
                      !.originalData = <<newItem>> \o @]
  IN IF hasNewItem THEN showError(S, MsgNewItemExists)
     ELSE EditFirstRow(renderTable(applyFilters(S1)), newItem)


(***************************************************************************)
(* References are renamed after every handler so that two states that      *)
(* differ only in the names of their objects are one state; objects and    *)
(* rows nothing refers to any more are dropped (garbage collection).       *)
(***************************************************************************)
RECURSIVE Dedup(_, _)
Dedup(q, seen) ==
  IF q = <<>> THEN <<>>
  ELSE IF Head(q) \in seen THEN Dedup(Tail(q), seen)
  ELSE <<Head(q)>> \o Dedup(Tail(q), seen \cup {Head(q)})

Pos(q, x) == IF x = 0 THEN 0 ELSE CHOOSE i \in 1..Len(q) : q[i] = x

Normalize(S) ==
  LET np == Len(S.pending)
      rowRoots ==
        Dedup(S.tbody \o <<S.currentEditingRow>> \o [i \in 1..np |-> S.pending[i].row],
              {NoRow})
      nr == Len(rowRoots)
      objRoots ==
        Dedup(S.originalData \o S.filteredData
                \o [i \in 1..nr |-> S.rows[rowRoots[i]].shown]
                \o [i \in 1..nr |-> S.rows[rowRoots[i]].bound]
                \o [i \in 1..np |-> S.pending[i].item],
              {NoObj})
      Obj(o) == Pos(objRoots, o)
      Row(r) == Pos(rowRoots, r)
  IN [S EXCEPT
        !.heap = [k \in 1..Len(objRoots) |-> S.heap[objRoots[k]]],
        !.originalData = [i \in 1..Len(S.originalData) |-> Obj(S.originalData[i])],
        !.filteredData = [i \in 1..Len(S.filteredData) |-> Obj(S.filteredData[i])],
        !.rows = [k \in 1..nr |->
                    [S.rows[rowRoots[k]] EXCEPT !.shown = Obj(@), !.bound = Obj(@)]],
        !.tbody = [i \in 1..Len(S.tbody) |-> Row(S.tbody[i])],
        !.currentEditingRow = Row(S.currentEditingRow),
        !.pending = [i \in 1..np |->
                       [S.pending[i] EXCEPT !.item = Obj(@), !.row = Row(@)]]]

Commit(S0) ==
  \E S \in {Normalize(S0)} :
     /\ heap' = S.heap
     /\ originalData' = S.originalData
     /\ filteredData' = S.filteredData
     /\ currentSort' = S.currentSort
     /\ currentEditingRow' = S.currentEditingRow
     /\ rows' = S.rows
     /\ tbody' = S.tbody
     /\ searchInput' = S.searchInput
     /\ categoryFilter' = S.categoryFilter
     /\ requiredFilter' = S.requiredFilter
     /\ totalCount' = S.totalCount
     /\ visibleCount' = S.visibleCount
     /\ totalCost' = S.totalCost
     /\ metricTotalCost' = S.metricTotalCost
     /\ errorBanner' = S.errorBanner
     /\ pending' = S.pending

(***************************************************************************)
(* Bounds of the model and the inputs the user and the store supply.       *)
(***************************************************************************)
MaxLoaded == 1     \* rows in the store when the page loads
MaxPending == 1    \* store calls in flight at once
MaxRacing == 2     \* store calls in flight at once, in the sessions with races
MaxAdds == 1       \* blank rows the user adds in a session
MaxStoreId == 3    \* the store stops accepting inserts past this id

Venue == <<"V">>
Hall == <<"h">>

\* Rows the store may hold at page load (without their ids).
LoadedPool ==
  { [ category |-> Str(<<"F">>), item |-> Str(Hall), required |-> Str(<<"Y", "e", "s">>),
      notes |-> Null, unit_cost |-> Num(5), quantity |-> Num(2), sub_total |-> Null,
      md_content |-> Null, html |-> Null ],
    [ category |-> Str(Venue), item |-> Str(<<"b">>), required |-> Str(<<"N", "o">>),
      notes |-> Null, unit_cost |-> Num(3), quantity |-> Null, sub_total |-> Num(7),
      md_content |-> Null, html |-> Null ] }

\* What the user may leave in an input when it loses focus (besides the
\* text it already holds).
Typed(field) ==
  CASE field = "category" -> {Venue}
    [] field = "item" -> {Hall}
    [] field = "required" -> {RequiredOptions[1]}
    [] field = "unitCost" -> {<<"0">>}
    [] OTHER -> {<<"0">>}

\* A session: the fields the user edits, the search terms typed, whether
\* the user deletes saved rows, whether the user edits the rows that were
\* loaded, the number of calls the user lets be in flight, of rows added
\* and of rows loaded.
Scope(fields, terms, deletes, edits, inFlight, adds, loaded) ==
  [ fields |-> fields, terms |-> terms, deletes |-> deletes, edits |-> edits,
    inFlight |-> inFlight, adds |-> adds, loaded |-> loaded ]

\* op: the event; id: the id of the item it concerns, read before the
\* handler ran; field: the field blurred or saved; ok: the row was added,
\* the dialog confirmed, the call succeeded; call: the position in pending
\* of the call that was answered or completed; issued: the kind of call
\* the handler issued.
Event(op, id, field, ok, call, issued) ==
  [ op |-> op, id |-> id, field |-> field, ok |-> ok, call |-> call,
    issued |-> issued ]

(***************************************************************************)
(* The repository functions, as functions of what the awaited store call   *)
(* does.                                                                   *)
(***************************************************************************)
\* What `await supabaseClient.from(...)...` does: it resolves to
\* {data, error} with an error ("error"), with data null ("nodata") or
\* with rows ("data"; a row that is null makes transformItem throw), it
\* resolves to undefined, which the destructuring cannot take
\* ("undefined"), or it rejects ("reject").
Answer(kind, data) == [kind |-> kind, data |-> data]

\* What a repository function does: it returns a value (kind: "items",
\* "item", "null", "true", "false") after showing banner, or it throws.
Returned(kind, items, banner) ==
  [threw |-> FALSE, kind |-> kind, items |-> items, banner |-> banner]

Thrown == [threw |-> TRUE, kind |-> "none", items |-> <<>>, banner |-> NoBanner]

MsgLoadFailed ==
  [msg |-> "Failed to load budget items from database. Please refresh the page.",
   field |-> ""]
MsgUnexpectedRefresh ==
  [msg |-> "An unexpected error occurred. Please refresh the page.", field |-> ""]
MsgUnexpected ==
  [msg |-> "An unexpected error occurred. Please try again.", field |-> ""]
MsgUpdateItemFailed == [msg |-> "Failed to update item. Please try again.", field |-> ""]
MsgSaveFailed ==
  [msg |-> "Failed to save markdown content. Please try again.", field |-> ""]

\* try { body } catch (err) { handler } without the catch block
TryRethrow(body, handler) == body

\* try { body } catch (err) { handler }
TryCatch(body, handler) == IF body.threw THEN handler ELSE body

\* The statements that throw when the call rejects or resolves to
\* undefined: the await and the destructuring of its value.
Awaited(a, rest) == IF a.kind \in {"reject", "undefined"} THEN Thrown ELSE rest

\* data && data.length > 0 ? transformItem(data[0]) : null
FirstRow(a) ==
  IF a.kind = "nodata" \/ a.data = <<>> THEN Returned("null", <<>>, NoBanner)
  ELSE IF a.data[1] = Null THEN Thrown
  ELSE Returned("item", <<transformItem(a.data[1])>>, NoBanner)

\* data ? data.map(transformItem) : []
AllRows(a) ==
  IF a.kind = "nodata" THEN Returned("items", <<>>, NoBanner)
  ELSE IF \E i \in 1..Len(a.data) : a.data[i] = Null THEN Thrown
  ELSE Returned("items", [i \in 1..Len(a.data) |-> transformItem(a.data[i])],
                NoBanner)

fetchAllItems(a) ==
  TryCatch(Awaited(a, IF a.kind = "error"
                        THEN Returned("items", <<>>, MsgLoadFailed)
                      ELSE AllRows(a)),
           Returned("items", <<>>, MsgUnexpectedRefresh))

createItem(a) ==
  TryCatch(Awaited(a, IF a.kind = "error"
                        THEN Returned("null", <<>>, MsgCreateFailed)
                      ELSE FirstRow(a)),
           Returned("null", <<>>, MsgUnexpected))

updateItem(a) ==
  TryCatch(Awaited(a, IF a.kind = "error"
                        THEN Returned("null", <<>>, MsgUpdateItemFailed)
                      ELSE FirstRow(a)),
           Returned("null", <<>>, MsgUnexpected))

updateItemField(a) ==
  TryCatch(Awaited(a, IF a.kind = "error"
                        THEN Returned("null", <<>>, NoBanner)
                      ELSE FirstRow(a)),
           Returned("null", <<>>, NoBanner))

deleteItem(a) ==
  TryCatch(Awaited(a, IF a.kind = "error"
                        THEN Returned("false", <<>>, MsgDeleteFailed)
                      ELSE Returned("true", <<>>, NoBanner)),
           Returned("false", <<>>, MsgUnexpected))

\* item.js: updateMarkdownContent
updateMarkdownContent(a) ==
  TryCatch(Awaited(a, IF a.kind = "error"
                        THEN Returned("null", <<>>, MsgSaveFailed)
                      ELSE FirstRow(a)),
           Returned("null", <<>>, MsgUnexpected))

\* item.js: fetchItem; .single() answers with an error when no row matches
fetchItem(a) ==
  TryCatch(Awaited(a, IF a.kind = "error"
                        THEN Returned("null", <<>>, NoBanner)
                      ELSE IF a.kind = "nodata" \/ a.data = <<>> \/ a.data[1] = Null
                        THEN Thrown
                      ELSE Returned("item", <<transformItem(a.data[1])>>, NoBanner)),
           Returned("null", <<>>, NoBanner))

RepoOps == {"fetchAllItems", "createItem", "updateItem", "updateItemField", "deleteItem"}

Repository(op, a) ==
  CASE op = "fetchAllItems" -> fetchAllItems(a)
    [] op = "createItem" -> createItem(a)
    [] op = "updateItem" -> updateItem(a)
    [] op = "updateItemField" -> updateItemField(a)
    [] OTHER -> deleteItem(a)

NoRepoCall == [op |-> "none", answer |-> Answer("none", <<>>), result |-> Thrown]

(***************************************************************************)
(* The item details page (item.js).  itemPage holds: listening (init       *)
(* registered the listeners), currentItem, originalMarkdown, editMode (the *)
(* edit mode is displayed), mdTextarea (its value), livePreview and        *)
(* mdContentEl (what they show), saveBtnDisabled, previewDebounceTimer     *)
(* (0 for null), timers (the timeouts that are set: id, and due once its   *)
(* 300 ms have passed), saving (the markdown saves in flight),             *)
(* errorBanner (the message of the showError call of the last handler),    *)
(* and with them stored: the md_content the store holds for the item.      *)
(***************************************************************************)
\* What renderMarkdown returns: the placeholder paragraph, or what
\* marked.parse makes of the markdown.
Placeholder == [html |-> "<p>No additional information provided.</p>", md |-> <<>>]
Marked(md) == [html |-> "marked.parse", md |-> md]
Blank == [html |-> "", md |-> <<>>]

\* renderMarkdown(mdContent)
renderMarkdown(mdContent) ==
  IF ~Truthy(mdContent) \/ Trim(mdContent.s) = <<>> THEN Placeholder
  ELSE Marked(mdContent.s)

\* `let markdownEditor;` is declared and never assigned.
markdownEditor == Undefined

NotOpen ==
  [ listening |-> FALSE,
    currentItem |-> [id |-> Null, mdContent |-> Null],
    originalMarkdown |-> <<>>,
    editMode |-> FALSE,
    mdTextarea |-> <<>>,
    livePreview |-> Blank,
    mdContentEl |-> Blank,
    saveBtnDisabled |-> FALSE,
    previewDebounceTimer |-> 0,
    timers |-> {},
    saving |-> <<>>,
    errorBanner |-> NoBanner,
    stored |-> Null ]

MsgInvalidId == [msg |-> "Invalid item ID provided.", field |-> ""]
MsgNotFound == [msg |-> "Item not found in database.", field |-> ""]

\* init() of the item page: validId is ~isNaN(id), a is what the store call
\* of fetchItem does.
itemInit(validId, a) ==
  IF ~validId THEN [NotOpen EXCEPT !.errorBanner = MsgInvalidId]
  ELSE LET fetched == fetchItem(a)
       IN IF fetched.kind # "item" THEN [NotOpen EXCEPT !.errorBanner = MsgNotFound]
          ELSE [NotOpen EXCEPT
                  !.listening = TRUE,
                  !.currentItem = [id |-> fetched.items[1].id,
                                   mdContent |-> fetched.items[1].mdContent],
                  !.mdContentEl = renderMarkdown(fetched.items[1].mdContent),
                  !.stored = a.data[1].md_content]

\* updateLivePreview
updateLivePreview(D) ==
  [D EXCEPT !.livePreview = renderMarkdown(Str(D.mdTextarea))]

\* enterEditMode of the item page
enterMarkdownEdit(D) ==
  LET original == OrElse(D.currentItem.mdContent, Str(<<>>)).s
  IN updateLivePreview([D EXCEPT !.originalMarkdown = original,
                                 !.editMode = TRUE,
                                 !.mdTextarea = original])

\* exitEditMode of the item page
exitMarkdownEdit(D) == [D EXCEPT !.editMode = FALSE]

\* handleTextareaInput that sets a timer and leaves the one that is set
handleTextareaInputKeep(D) ==
  LET id == D.previewDebounceTimer + 1
  IN [D EXCEPT !.timers = @ \cup {[id |-> id, due |-> FALSE]},
               !.previewDebounceTimer = id]

\* handleTextareaInput: clearTimeout of the timer held, setTimeout of a new
\* one (the ids of the timers count up from 1).
handleTextareaInput(D) ==
  LET id == D.previewDebounceTimer + 1
      kept == IF D.previewDebounceTimer # 0
                THEN {t \in D.timers : t.id # D.previewDebounceTimer}
              ELSE D.timers
  IN [D EXCEPT !.timers = kept \cup {[id |-> id, due |-> FALSE]},
               !.previewDebounceTimer = id]

\* saveMarkdownChanges, up to the await
saveMarkdownChanges(D) ==
  IF D.mdTextarea = D.originalMarkdown THEN exitMarkdownEdit(D)
  ELSE [D EXCEPT !.saveBtnDisabled = TRUE,
                 !.saving = Append(@, [newMarkdown |-> D.mdTextarea,
                                       answer |-> Answer("none", <<>>)])]

\* saveMarkdownChanges after the await, which leaves the edit mode whatever
\* updateMarkdownContent returned
saveCompletedLeave(D, c) ==
  LET updated == updateMarkdownContent(c.answer)
      D1 == [D EXCEPT !.errorBanner = updated.banner, !.saveBtnDisabled = FALSE]
  IN IF updated.kind = "item"
       THEN exitMarkdownEdit(
              [D1 EXCEPT !.currentItem.mdContent = Str(c.newMarkdown),
                         !.mdContentEl = renderMarkdown(Str(c.newMarkdown))])
     ELSE exitMarkdownEdit(D1)

\* saveMarkdownChanges after `await updateMarkdownContent(...)` for the
\* save c, whose store call did c.answer.
saveCompleted(D, c) ==
  LET updated == updateMarkdownContent(c.answer)
      D1 == [D EXCEPT !.errorBanner = updated.banner, !.saveBtnDisabled = FALSE]
  IN IF updated.kind = "item"
       THEN exitMarkdownEdit(
              [D1 EXCEPT !.currentItem.mdContent = Str(c.newMarkdown),
                         !.mdContentEl = renderMarkdown(Str(c.newMarkdown))])
     ELSE D1

\* cancelEditing; the user answers the confirmation dialog with confirmed.
cancelEditing(D, confirmed) ==
  IF D.mdTextarea # D.originalMarkdown /\ ~confirmed THEN D
  ELSE exitMarkdownEdit([D EXCEPT !.mdTextarea = D.originalMarkdown])

\* handleKeyDown of the item page: reading markdownEditor.style throws a
\* TypeError while markdownEditor is undefined, which ends the listener.
handleKeyDown(D, key, confirmed) ==
  IF key # "Escape" THEN D
  ELSE IF IsNullish(markdownEditor) THEN D
  ELSE IF D.editMode THEN cancelEditing(D, confirmed)
  ELSE D

(***************************************************************************)
(* Initial state: init() has loaded the list and rendered the table.       *)
(***************************************************************************)
\* populateCategoryFilter: the distinct non-blank categories
Categories(h, data) ==
  { h[data[i]].category.s : i \in
      { j \in 1..Len(data) :
          /\ Truthy(h[data[j]].category) /\ IsString(h[data[j]].category)
          /\ Trim(h[data[j]].category.s) # <<>> } }

\* init() after fetchAllItems returned the rows of list.
Loaded(list) ==
  LET n == Len(list)
  IN renderTable(
       [ heap |-> [k \in 1..n |-> transformItem(InsertedRow(list[k], k))],
         originalData |-> [k \in 1..n |-> k],
         filteredData |-> [k \in 1..n |-> k],
         currentSort |-> [key |-> "id", asc |-> TRUE],
         currentEditingRow |-> NoRow,
         rows |-> <<>>,
         tbody |-> <<>>,
         searchInput |-> <<>>,
         categoryFilter |-> <<>>,
         requiredFilter |-> FALSE,
         totalCount |-> 0,
         visibleCount |-> 0,
         totalCost |-> <<>>,
         metricTotalCost |-> <<>>,
         errorBanner |-> NoBanner,
         pending |-> <<>> ])

\* init() for a session sc when the store holds up to sc.loaded rows of pool.
InitList(sc, pool) ==
  \E n \in 0..sc.loaded : \E list \in [1..n -> pool] :
    \E S \in {Normalize(Loaded(list))} :
       /\ heap = S.heap
       /\ originalData = S.originalData
       /\ filteredData = S.filteredData
       /\ currentSort = S.currentSort
       /\ currentEditingRow = S.currentEditingRow
       /\ rows = S.rows
       /\ tbody = S.tbody
       /\ searchInput = S.searchInput
       /\ categoryFilter = S.categoryFilter
       /\ requiredFilter = S.requiredFilter
       /\ categoryOptions = Categories(S.heap, S.originalData)
       /\ totalCount = S.totalCount
       /\ visibleCount = S.visibleCount
       /\ totalCost = S.totalCost
       /\ metricTotalCost = S.metricTotalCost
       /\ errorBanner = S.errorBanner
       /\ pending = S.pending
       /\ storeIds = 1..n
       /\ nextId = n + 1
       /\ clock = 1
       /\ lastEvent = Event("init", Null, "", TRUE, 0, "none")
       /\ scope = [sc EXCEPT !.loaded = n]

\* A session on the list page: the item details page is not open.
InitPool(sc, pool) ==
  /\ InitList(sc, pool)
  /\ itemPage = NotOpen
  /\ repo = NoRepoCall

InitScoped(sc) == InitPool(sc, LoadedPool)

(***************************************************************************)
(* User events.                                                            *)
(***************************************************************************)
Attached(r) == \E i \in 1..Len(tbody) : tbody[i] = r

HasNewItem ==
  \E i \in 1..Len(originalData) : IsTempId(heap[originalData[i]].id)

\* The ids of the rows the page loaded are 1..scope.loaded.
WasLoaded(id) == IsNumber(id) /\ id.n <= scope.loaded

Frame == UNCHANGED <<categoryOptions, storeIds, nextId, scope, itemPage, repo>>

\* Click on "+ Add New Item".
AddNewItemRow ==
  /\ HasNewItem \/ clock <= scope.adds
  /\ Commit(addNewItemRow(Cur, clock))
  /\ clock' = IF HasNewItem THEN clock ELSE clock + 1
  /\ lastEvent' = Event("add", Null, "", ~HasNewItem, 0, "none")
  /\ Frame

\* Click on the Edit button of a rendered row in display mode.
EditClick ==
  \E i \in 1..Len(tbody) : \E r \in {tbody[i]} :
    /\ rows[r].shown # NoObj
    /\ ~rows[r].inputs.has
    /\ scope.edits \/ ~WasLoaded(heap[rows[r].bound].id)
    /\ Commit(enterEditMode(Cur, r, rows[r].bound))
    /\ lastEvent' = Event("edit", heap[rows[r].bound].id, "", TRUE, 0, "none")
    /\ UNCHANGED clock
    /\ Frame

\* Click on Done, or ESC in an input, of a rendered row in edit mode.
DoneClick ==
  \E i \in 1..Len(tbody) : \E r \in {tbody[i]} :
    /\ rows[r].inputs.has
    /\ Commit(exitEditMode(Cur, r))
    /\ lastEvent' = Event("done", heap[rows[r].bound].id, "", TRUE, 0, "none")
    /\ UNCHANGED clock
    /\ Frame

\* An input of a rendered row in edit mode loses focus (or the select
\* changes) holding one of texts, or the text it already holds.
Blur(field, texts) ==
  \E i \in 1..Len(tbody) : \E r \in {tbody[i]} :
    /\ rows[r].inputs.has
    /\ \E v \in texts \cup {InputOf(rows[r].inputs, field)} :
         \E S1 \in {handleFieldBlur(
                      [Cur EXCEPT !.rows[r].inputs = SetInput(@, field, v)],
                      r, field)} :
           /\ Len(S1.pending) <= scope.inFlight
           /\ Commit(S1)
           /\ lastEvent' =
                Event("blur", heap[rows[r].bound].id, field, TRUE, 0,
                      IF Len(S1.pending) > Len(pending)
                        THEN S1.pending[Len(S1.pending)].kind ELSE "none")
    /\ UNCHANGED clock
    /\ Frame

\* A field the session edits loses focus.
FieldBlur == \E field \in scope.fields : Blur(field, Typed(field))

\* What the user may leave in the unit cost input besides "0": the number
\* input takes any decimal, its min attribute only marks it invalid.
TypedCosts == {<<"4">>, <<"-", "1">>}

\* The unit cost input loses focus holding a cost.
CostBlur == Blur("unitCost", TypedCosts)

\* handleDelete asking the store to delete every row, the blank row too
handleDeleteAlways(S, id, confirmed) ==
  IF confirmed
    THEN [S EXCEPT !.pending = Append(@,
            Call("delete", NoObj, id, "", Null, Null, NoRow, NoPayload))]
  ELSE S

\* handleDelete(id), up to the first await; the user answers the
\* confirmation dialog with confirmed.
handleDelete(S, id, confirmed) ==
  IF IsTempId(id) THEN renderTable(applyFilters(RemoveById(S, id)))
  ELSE IF confirmed
    THEN [S EXCEPT !.pending = Append(@,
            Call("delete", NoObj, id, "", Null, Null, NoRow, NoPayload))]
  ELSE S

\* Click on the Delete button of a rendered row.
DeleteClick ==
  \E i \in 1..Len(tbody) : \E r \in {tbody[i]} : \E confirmed \in BOOLEAN :
    /\ rows[r].shown # NoObj
    /\ \E id \in {heap[rows[r].bound].id} :
         /\ IsTempId(id) => confirmed
         /\ IsTempId(id) \/ scope.deletes
         /\ (~IsTempId(id) /\ confirmed) => Len(pending) < scope.inFlight
         /\ Commit(handleDelete(Cur, id, confirmed))
         /\ lastEvent' = Event("delete", id, "", confirmed, 0,
                               IF ~IsTempId(id) /\ confirmed THEN "delete" ELSE "none")
    /\ UNCHANGED clock
    /\ Frame

\* handleFilterChange
handleFilterChange(S) == renderTable(applyFilters(S))

\* The search box changes (the category select and the required checkbox
\* are left alone in these sessions).
FilterChange ==
  \E term \in scope.terms :
    /\ term # searchInput
    /\ Commit(handleFilterChange([Cur EXCEPT !.searchInput = term]))
    /\ lastEvent' = Event("filter", Null, "", TRUE, 0, "none")
    /\ UNCHANGED clock
    /\ Frame

\* The category select changes to one of its options ('' is "All
\* Categories"; the options are those populateCategoryFilter made in init).
CategoryChange ==
  \E cat \in categoryOptions \cup {<<>>} :
    /\ cat # categoryFilter
    /\ Commit(handleFilterChange([Cur EXCEPT !.categoryFilter = cat]))
    /\ lastEvent' = Event("filter", Null, "", TRUE, 0, "none")
    /\ UNCHANGED clock
    /\ Frame

\* The "required only" checkbox is toggled.
RequiredChange ==
  /\ Commit(handleFilterChange([Cur EXCEPT !.requiredFilter = ~@]))
  /\ lastEvent' = Event("filter", Null, "", TRUE, 0, "none")
  /\ UNCHANGED clock
  /\ Frame

\* The keys of the sortable headers (th[data-sort]): the columns of a row.
SortKeys == {"id", "category", "item", "required", "unitCost", "quantity", "subTotal"}

\* The click listener of a header that keeps the direction when the sort
\* field changes.
sortClickKeep(S, key) ==
  renderTable([S EXCEPT !.currentSort =
                 IF S.currentSort.key = key
                   THEN [key |-> key, asc |-> ~S.currentSort.asc]
                 ELSE [key |-> key, asc |-> S.currentSort.asc]])

\* The click listener of a sortable header whose data-sort is key.
sortClick(S, key) ==
  renderTable([S EXCEPT !.currentSort =
                 IF S.currentSort.key = key
                   THEN [key |-> key, asc |-> ~S.currentSort.asc]
                 ELSE [key |-> key, asc |-> TRUE]])

\* Click on a sortable header.
SortClick ==
  \E key \in SortKeys :
    /\ Commit(sortClick(Cur, key))
    /\ lastEvent' = Event("sort", Null, key, TRUE, 0, "none")
    /\ UNCHANGED clock
    /\ Frame

(***************************************************************************)
(* The store answers a call; the continuation of the handler runs.         *)
(***************************************************************************)
RemoveAt(q, i) == SubSeq(q, 1, i - 1) \o SubSeq(q, i + 1, Len(q))

Unhandled ==
  UNCHANGED << heap, originalData, filteredData, currentSort, currentEditingRow,
               rows, tbody, searchInput, categoryFilter, requiredFilter,
               categoryOptions, totalCount, visibleCount, totalCost,
               metricTotalCost, errorBanner, clock, scope, itemPage, repo >>

\* The store processes call i and produces its answer: an error, or the
\* effect of the insert, update or delete on the table.
StoreExec ==
  \E i \in 1..Len(pending) : \E fails \in BOOLEAN : \E c \in {pending[i]} :
    /\ c.result = ""
    /\ IF fails
         THEN /\ pending' = [pending EXCEPT ![i].result = "error"]
              /\ UNCHANGED <<storeIds, nextId>>
       ELSE IF c.kind = "create"
         THEN /\ nextId <= MaxStoreId
              /\ pending' = [pending EXCEPT
                   ![i].result = "ok",
                   ![i].created = transformItem(InsertedRow(c.payload, nextId))]
              /\ storeIds' = storeIds \cup {nextId}
              /\ nextId' = nextId + 1
       ELSE IF c.kind = "update"
         THEN /\ pending' = [pending EXCEPT
                   ![i].result = IF c.id.n \in storeIds THEN "ok" ELSE "norow"]
              /\ UNCHANGED <<storeIds, nextId>>
       ELSE /\ pending' = [pending EXCEPT ![i].result = "ok"]
            /\ storeIds' = storeIds \ {c.id.n}
            /\ UNCHANGED nextId
    /\ lastEvent' = Event("store", c.id, AppField(c), ~fails, i, "none")
    /\ Unhandled

\* The store answers a create with no error and no row: createItem then
\* returns null without a banner.
StoreEmpty ==
  \E i \in 1..Len(pending) : \E c \in {pending[i]} :
    /\ c.result = ""
    /\ c.kind = "create"
    /\ pending' = [pending EXCEPT ![i].result = "norow"]
    /\ UNCHANGED <<storeIds, nextId>>
    /\ lastEvent' = Event("store", c.id, AppField(c), FALSE, i, "none")
    /\ Unhandled

Completed(kind) ==
  \E i \in 1..Len(pending) : \E c \in {pending[i]} :
    /\ c.kind = kind
    /\ c.result # ""
    /\ \E S \in {[Cur EXCEPT !.pending = RemoveAt(@, i)]} :
         Commit(CASE kind = "create" -> createCompleted(S, c)
                  [] kind = "update" -> updateCompleted(S, c)
                  [] OTHER -> deleteCompleted(S, c))
    /\ lastEvent' = Event(kind, IF kind = "delete" THEN c.id ELSE heap[c.item].id,
                          AppField(c), c.result = "ok", i, "none")
    /\ UNCHANGED clock
    /\ Frame

CreateCompleted == Completed("create")
UpdateCompleted == Completed("update")
DeleteCompleted == Completed("delete")

Next ==
  \/ AddNewItemRow
  \/ EditClick
  \/ DoneClick
  \/ FieldBlur
  \/ DeleteClick
  \/ StoreExec
  \/ CreateCompleted
  \/ UpdateCompleted

EditedFields == {"category", "item", "unitCost"}

\* Sessions with one call in flight at a time: the user waits for the
\* answer of a save before causing the next one.
Init ==
  InitScoped(Scope(EditedFields, {}, FALSE, TRUE, MaxPending, MaxAdds, MaxLoaded))

Spec == Init /\ [][Next]_vars

\* Sessions with calls racing: the user adds and fills a blank row and
\* leaves the loaded rows alone, or edits the unit cost of a loaded row.
InitRace ==
  \/ InitScoped(Scope(EditedFields, {}, FALSE, FALSE, MaxRacing, MaxAdds, MaxLoaded))
  \/ InitScoped(Scope({"unitCost"}, {}, FALSE, TRUE, MaxRacing, 0, MaxLoaded))

SpecRace == InitRace /\ [][Next]_vars

\* Sessions in which the user edits the unit cost and the quantity of the
\* loaded rows and does not wait for the answer of a save.
PairFields == {"unitCost", "quantity"}

InitPair == InitScoped(Scope(PairFields, {}, FALSE, TRUE, MaxRacing, 0, MaxLoaded))

NextPair ==
  \/ EditClick
  \/ DoneClick
  \/ FieldBlur
  \/ StoreExec
  \/ UpdateCompleted

SpecPair == InitPair /\ [][NextPair]_vars

\* Sessions in which the user also searches, and deletes saved rows.
SavedTerms == {<<>>, <<"f">>}

InitSaved ==
  InitScoped(Scope({"category", "item"}, SavedTerms, TRUE, TRUE, MaxPending, MaxAdds,
                   MaxLoaded))

NextSaved ==
  \/ Next
  \/ FilterChange
  \/ DeleteCompleted

SpecSaved == InitSaved /\ [][NextSaved]_vars

\* Sessions that start from an empty list, in which the user also types
\* costs other than 0, and the store may answer a create with no row.
InitInput ==
  InitScoped(Scope({"category", "item"}, {}, FALSE, TRUE, MaxPending, MaxAdds, 0))

NextInput ==
  \/ AddNewItemRow
  \/ EditClick
  \/ DoneClick
  \/ FieldBlur
  \/ CostBlur
  \/ StoreExec
  \/ StoreEmpty
  \/ CreateCompleted
  \/ UpdateCompleted

SpecInput == InitInput /\ [][NextInput]_vars

(***************************************************************************)
(* Sessions in which the user only filters and sorts the loaded list.      *)
(***************************************************************************)
MaxShown == 3      \* rows in the store when the page loads, in these sessions

\* Rows the store may hold at page load (without their ids): categories
\* that differ in case only, equal unit costs, a missing quantity, a
\* missing unit cost, a stored sub-total that is not unit cost x quantity.
ViewPool ==
  { [ category |-> Str(<<"V">>), item |-> Str(<<"h">>), required |-> Str(<<"Y", "e", "s">>),
      notes |-> Null, unit_cost |-> Num(5), quantity |-> Num(2), sub_total |-> Null,
      md_content |-> Null, html |-> Null ],
    [ category |-> Str(<<"v">>), item |-> Str(<<"H", "b">>), required |-> Str(<<"N", "o">>),
      notes |-> Null, unit_cost |-> Num(3), quantity |-> Null, sub_total |-> Num(7),
      md_content |-> Null, html |-> Null ],
    [ category |-> Str(<<"F">>), item |-> Str(<<"b">>), required |-> Str(<<"M", "a", "y", "b", "e">>),
      notes |-> Null, unit_cost |-> Num(5), quantity |-> Null, sub_total |-> Null,
      md_content |-> Null, html |-> Null ],
    [ category |-> Str(<<"V">>), item |-> Str(<<"y">>), required |-> Null,
      notes |-> Null, unit_cost |-> Null, quantity |-> Num(1), sub_total |-> Null,
      md_content |-> Null, html |-> Null ] }

\* What the user may type in the search box.
ViewTerms == {<<>>, <<"H">>, <<" ", "v", " ">>}

InitView == InitPool(Scope({}, ViewTerms, FALSE, FALSE, 0, 0, MaxShown), ViewPool)

NextView ==
  \/ FilterChange
  \/ CategoryChange
  \/ RequiredChange
  \/ SortClick

SpecView == InitView /\ [][NextView]_vars

(***************************************************************************)
(* Sessions in which the user sorts the list and adds or removes the blank *)
(* row.                                                                    *)
(***************************************************************************)
\* Rows the store may hold at page load (without their ids): unit costs
\* whose order as numbers is not their order as strings, a negative cost,
\* missing costs and quantities.
SortedPool ==
  { [ category |-> Str(<<"V">>), item |-> Str(<<"h">>), required |-> Str(<<"Y", "e", "s">>),
      notes |-> Null, unit_cost |-> Num(10), quantity |-> Num(2), sub_total |-> Null,
      md_content |-> Null, html |-> Null ],
    [ category |-> Str(<<"f">>), item |-> Str(<<"B">>), required |-> Str(<<"N", "o">>),
      notes |-> Null, unit_cost |-> Num(9), quantity |-> Null, sub_total |-> Num(7),
      md_content |-> Null, html |-> Null ],
    [ category |-> Str(<<"F">>), item |-> Str(<<"b">>), required |-> Null,
      notes |-> Null, unit_cost |-> Null, quantity |-> Num(0 - 1), sub_total |-> Null,
      md_content |-> Null, html |-> Null ] }

InitSorted == InitPool(Scope({}, {}, FALSE, FALSE, 0, MaxAdds, MaxLoaded + 1), SortedPool)

NextSorted ==
  \/ SortClick
  \/ AddNewItemRow
  \/ DeleteClick

SpecSorted == InitSorted /\ [][NextSorted]_vars

(***************************************************************************)
(* Sessions on the item details page.                                      *)
(***************************************************************************)
MaxKeys == 2       \* input events of the textarea in a session

\* What the user may leave in the textarea after an input event.
MdTexts == {<<>>, <<" ">>, <<"#">>, <<"a">>}

\* The row of the item the page is opened for, as the store holds it.
ItemRow(md) ==
  [ id |-> Num(1), category |-> Str(Venue), item |-> Str(Hall), required |-> Null,
    notes |-> Null, unit_cost |-> Num(5), quantity |-> Null, sub_total |-> Null,
    md_content |-> md, html |-> Null ]

\* What the store call of fetchItem may do.
FetchAnswers ==
  { Answer("data", <<ItemRow(md)>>) : md \in {Null, Str(<<"#">>)} }
    \cup { Answer("error", <<>>), Answer("nodata", <<>>), Answer("reject", <<>>) }

\* What the store call of updateMarkdownContent may do for the save c.
SaveAnswers(c) ==
  { Answer("data", <<ItemRow(Str(c.newMarkdown))>>), Answer("data", <<>>),
    Answer("error", <<>>), Answer("reject", <<>>) }

listVars ==
  << heap, originalData, filteredData, currentSort, currentEditingRow, rows,
     tbody, searchInput, categoryFilter, requiredFilter, categoryOptions,
     totalCount, visibleCount, totalCost, metricTotalCost, errorBanner,
     pending, storeIds, nextId, clock, scope >>

InitItem ==
  /\ InitList(Scope({}, {}, FALSE, FALSE, 0, 0, 0), LoadedPool)
  /\ repo = NoRepoCall
  /\ \E validId \in BOOLEAN : \E a \in FetchAnswers : itemPage = itemInit(validId, a)

\* The state a handler of the item page starts from.
ItemCur == [itemPage EXCEPT !.errorBanner = NoBanner]

ItemStep(D, op, ok, issued) ==
  /\ itemPage' = D
  /\ lastEvent' = Event(op, itemPage.currentItem.id, "mdContent", ok, 0, issued)
  /\ UNCHANGED <<listVars, repo>>

\* Click on Edit.
EditMarkdownClick ==
  /\ itemPage.listening
  /\ ~itemPage.editMode
  /\ ItemStep(enterMarkdownEdit(ItemCur), "editMarkdown", TRUE, "none")

\* The user changes the text of the textarea.
TextareaInput ==
  \E text \in MdTexts :
    /\ itemPage.listening
    /\ itemPage.editMode
    /\ text # itemPage.mdTextarea
    /\ itemPage.previewDebounceTimer < MaxKeys
    /\ ItemStep(handleTextareaInput([ItemCur EXCEPT !.mdTextarea = text]),
                "input", TRUE, "none")

\* The 300 ms of the timer id pass.
TimerDue(id) ==
  \E t \in itemPage.timers :
    /\ t.id = id
    /\ ~t.due
    /\ ItemStep([itemPage EXCEPT !.timers = (@ \ {t}) \cup {[t EXCEPT !.due = TRUE]}],
                "due", TRUE, "none")

\* The callback of the timer id runs.
PreviewTimer(id) ==
  \E t \in itemPage.timers :
    /\ t.id = id
    /\ t.due
    /\ ItemStep(updateLivePreview([ItemCur EXCEPT !.timers = @ \ {t}]),
                "preview", TRUE, "none")

\* Click on Save.
SaveClick ==
  /\ itemPage.listening
  /\ itemPage.editMode
  /\ ~itemPage.saveBtnDisabled
  /\ ItemStep(saveMarkdownChanges(ItemCur), "save", TRUE,
              IF itemPage.mdTextarea # itemPage.originalMarkdown
                THEN "save" ELSE "none")

\* Click on Cancel; the dialog is shown when the text was changed.
CancelClick ==
  \E confirmed \in BOOLEAN :
    /\ itemPage.listening
    /\ itemPage.editMode
    /\ itemPage.mdTextarea = itemPage.originalMarkdown => confirmed
    /\ ItemStep(cancelEditing(ItemCur, confirmed), "cancel", confirmed, "none")

\* ESC is pressed while the edit mode is displayed.
EscapeKey ==
  \E confirmed \in BOOLEAN :
    /\ itemPage.listening
    /\ itemPage.editMode
    /\ itemPage.mdTextarea = itemPage.originalMarkdown => confirmed
    /\ ItemStep(handleKeyDown(ItemCur, "Escape", confirmed), "escape", confirmed,
                "none")

\* The store call of a save in flight does something: it writes the
\* markdown and answers with the row, or it writes nothing.
MarkdownStore ==
  \E i \in 1..Len(itemPage.saving) : \E c \in {itemPage.saving[i]} :
    /\ c.answer.kind = "none"
    /\ \E a \in SaveAnswers(c) :
         ItemStep([itemPage EXCEPT
                     !.saving[i].answer = a,
                     !.stored = IF a.kind = "data" /\ a.data # <<>>
                                  THEN a.data[1].md_content ELSE @],
                  "store", a.kind = "data" /\ a.data # <<>>, "none")

\* The continuation of saveMarkdownChanges runs.
SaveCompleted ==
  \E i \in 1..Len(itemPage.saving) : \E c \in {itemPage.saving[i]} :
    /\ c.answer.kind # "none"
    /\ ItemStep(saveCompleted([ItemCur EXCEPT !.saving = RemoveAt(@, i)], c),
                "saved", c.answer.kind = "data" /\ c.answer.data # <<>>, "none")

NextItem ==
  \/ EditMarkdownClick
  \/ TextareaInput
  \/ \E id \in 1..MaxKeys : TimerDue(id)
  \/ \E id \in 1..MaxKeys : PreviewTimer(id)
  \/ SaveClick
  \/ CancelClick
  \/ EscapeKey
  \/ MarkdownStore
  \/ SaveCompleted

SpecItem == InitItem /\ [][NextItem]_vars

\* A timer that is set and not cleared comes due, and its callback runs.
SpecItemFair ==
  /\ SpecItem
  /\ \A id \in 1..MaxKeys : WF_vars(TimerDue(id)) /\ WF_vars(PreviewTimer(id))

(***************************************************************************)
(* The repository functions of the list page, called on what the store     *)
(* call may do.                                                            *)
(***************************************************************************)
MaxRows == 2       \* rows in the data of an answer

\* The rows of an answer: rows of the table, or null.
AnswerRows ==
  { InsertedRow(r, 1) : r \in ViewPool } \cup {Null}

Answers ==
  { Answer("data", data) :
      data \in UNION { [1..n -> AnswerRows] : n \in 0..MaxRows } }
    \cup { Answer("error", <<>>), Answer("nodata", <<>>), Answer("undefined", <<>>),
           Answer("reject", <<>>) }

RepoCall ==
  \E op \in RepoOps : \E a \in Answers :
    /\ repo' = [op |-> op, answer |-> a, result |-> Repository(op, a)]
    /\ lastEvent' = Event(op, Null, "", ~(a.kind \in {"error", "reject", "undefined"}),
                          0, "none")
    /\ UNCHANGED <<listVars, itemPage>>

InitRepo ==
  /\ InitList(Scope({}, {}, FALSE, FALSE, 0, 0, 0), LoadedPool)
  /\ itemPage = NotOpen
  /\ repo = NoRepoCall

SpecRepo == InitRepo /\ [][RepoCall]_vars

(***************************************************************************)
(* transformItem and transformToDb, applied to rows and items whose fields *)
(* range over the values a column or a field can hold.                     *)
(***************************************************************************)
ColumnTexts == {Str(<<"V">>), Null}
ColumnNumbers == {Null, Num(0), Num(5), Num(-1)}

\* Rows as the store returns them.
TransformRows ==
  [ id : {Num(1)}, category : ColumnTexts, item : {Str(<<"h">>)},
    required : {Str(<<"Y", "e", "s">>), Str(<<"M", "a", "y", "b", "e">>), Null},
    notes : {Str(<<"n">>), Null}, unit_cost : ColumnNumbers,
    quantity : ColumnNumbers, sub_total : {Null, Num(0), Num(7)},
    md_content : {Null}, html : {Null} ]

\* Items as the page holds them; a field may be missing (undefined).
TransformItems ==
  [ id : {Num(1)}, category : ColumnTexts, item : {Str(<<"h">>)},
    required : {Str(<<"Y", "e", "s">>), Str(<<"M", "a", "y", "b", "e">>), Null},
    notes : {Str(<<"n">>), Null}, unitCost : ColumnNumbers \cup {Undefined},
    quantity : ColumnNumbers \cup {Undefined},
    subTotal : {Null, Num(0), Num(7), Undefined},
    mdContent : {Null}, html : {Undefined} ]

Transformed(op, input, output) == [op |-> op, input |-> input, output |-> output]

TransformItem ==
  \E row \in TransformRows :
    /\ repo' = Transformed("transformItem", row, transformItem(row))
    /\ lastEvent' = Event("transformItem", row.id, "", TRUE, 0, "none")
    /\ UNCHANGED <<listVars, itemPage>>

TransformToDb ==
  \E it \in TransformItems :
    /\ repo' = Transformed("transformToDb", it, transformToDb(it))
    /\ lastEvent' = Event("transformToDb", it.id, "", TRUE, 0, "none")
    /\ UNCHANGED <<listVars, itemPage>>

\* A row read from the store and written back.
TransformBack ==
  \E row \in TransformRows :
    /\ repo' = Transformed("transformBack", row, transformToDb(transformItem(row)))
    /\ lastEvent' = Event("transformBack", row.id, "", TRUE, 0, "none")
    /\ UNCHANGED <<listVars, itemPage>>

NextTransform == TransformItem \/ TransformToDb \/ TransformBack

SpecTransform == InitRepo /\ [][NextTransform]_vars

(***************************************************************************)
(* Sessions that enter edit mode and leave the fields as they were built.  *)
(***************************************************************************)
\* Rows the store may hold at page load: the rows of ViewPool (a required
\* value that is null among them) and a row whose required value is none
\* of the options of the select.
UntouchedPool ==
  ViewPool \cup
    { [ category |-> Str(<<"F">>), item |-> Str(<<"h">>), required |-> Str(<<"M">>),
        notes |-> Null, unit_cost |-> Num(0), quantity |-> Num(2), sub_total |-> Null,
        md_content |-> Null, html |-> Null ] }

InitUntouched ==
  InitPool(Scope(EditFields, {}, FALSE, TRUE, MaxPending, 0, MaxLoaded + 1), UntouchedPool)

\* An input loses focus holding the text it already holds.
UntouchedBlur == \E field \in scope.fields : Blur(field, {})

NextUntouched ==
  \/ EditClick
  \/ DoneClick
  \/ UntouchedBlur
  \/ StoreExec
  \/ UpdateCompleted

SpecUntouched == InitUntouched /\ [][NextUntouched]_vars

(***************************************************************************)
(* What is observed of a state.                                            *)
(***************************************************************************)
\* The canonical collection, by value.
Items == [i \in 1..Len(originalData) |-> heap[originalData[i]]]
Ids == [i \in 1..Len(originalData) |-> heap[originalData[i]].id]

\* The positions of blank (not yet saved) rows in the canonical collection.
Sentinels == {i \in 1..Len(originalData) : IsTempId(Ids[i])}

\* The calls in flight of one kind.
InFlight(kind) == {i \in 1..Len(pending) : pending[i].kind = kind}

(***************************************************************************)
(* Properties.                                                             *)
(***************************************************************************)
\* C1: the canonical collection never holds more than one blank row (an
\* item whose id starts with 'new-item-temp-'), and a click on "Add New
\* Item" while a blank row exists leaves the collection as it is and shows
\* the error message.
C1_SingleSentinel ==
  /\ [](Cardinality(Sentinels) <= 1)
  /\ [][(lastEvent'.op = "add" /\ HasNewItem) =>
          /\ Items' = Items
          /\ errorBanner' = MsgNewItemExists]_vars

C1_Witness ==
  /\ lastEvent.op = "add" /\ ~lastEvent.ok
  /\ Cardinality(Sentinels) = 1
  /\ errorBanner = MsgNewItemExists

\* C2: the ids of the items of the canonical collection are pairwise
\* distinct, also after the completion of a create has put the returned
\* record in the place of the blank row and after completions of creates
\* and updates that were in flight together.
C2_DistinctIds ==
  \A i, j \in 1..Len(originalData) : i # j => Ids[i] # Ids[j]

\* A create has completed while an update the store had already answered
\* was in flight, with two items in the collection.
C2_Witness ==
  /\ lastEvent.op = "create" /\ lastEvent.ok
  /\ \E i \in InFlight("update") : pending[i].result = "ok"
  /\ Len(originalData) >= 2
  /\ Sentinels = {}

\* The position in the canonical collection of the item of an id (0: none).
IndexOf(ids, id) ==
  IF \E k \in 1..Len(ids) : ids[k] = id
    THEN CHOOSE k \in 1..Len(ids) : ids[k] = id
  ELSE 0

\* The text an edit input shows for a field of an item.
Shown(item, field) == InputOf(InputsFor(item), field)

\* C3: when a single-field update of a saved item fails, the canonical
\* collection is left as it was, and the input of that field in the row
\* being edited shows the canonical value of the field again.
C3_FailedUpdateRestores ==
  [][(lastEvent'.op = "update" /\ ~lastEvent'.ok) =>
       LET c == pending[lastEvent'.call]
           k == IndexOf(Ids, lastEvent'.id)
       IN /\ Items' = Items
          /\ (k # 0 /\ c.row = currentEditingRow /\ Attached(c.row)) =>
               InputOf(rows'[currentEditingRow'].inputs, lastEvent'.field)
                 = Shown(Items'[k], lastEvent'.field)]_vars

\* The total the summary shows when every item of the view counts with the
\* sub-total of its canonical record.
CanonicalTotal ==
  LET Canon(o) == IF IndexOf(Ids, heap[o].id) # 0
                    THEN Items[IndexOf(Ids, heap[o].id)] ELSE heap[o]
  IN formatCurrency(
       Num(SumSeq([i \in 1..Len(filteredData) |->
                     calculateSubTotal(Canon(filteredData[i]))])), TRUE)

\* C4: after a successful update of unitCost or quantity of a saved item
\* the canonical record holds the new value and the total cost shown for
\* the view is the one of the canonical values of the items of the view.
\* (The page calls fetchAllItems in init() only; nothing after the load
\* lists the table again.)
C4_UpdateReflected ==
  [][(lastEvent'.op = "update" /\ lastEvent'.ok
        /\ lastEvent'.field \in NumericFields
        /\ IndexOf(Ids, lastEvent'.id) # 0) =>
       /\ Get(Items'[IndexOf(Ids, lastEvent'.id)], lastEvent'.field)
            = pending[lastEvent'.call].value
       /\ totalCost' = CanonicalTotal']_vars

C5_WitnessLocal ==
  /\ lastEvent.op = "blur" /\ lastEvent.issued = "none"
  /\ \E k \in Sentinels : Items[k].category = Str(Venue) /\ ~Truthy(Items[k].item)
  /\ pending = <<>>

\* C6: when a create succeeds for the blank row, the returned record takes
\* the position of the blank row in the canonical collection, the id of
\* the blank row is gone, and every other element is unchanged.
C6_CreateReplacesInPlace ==
  [][(lastEvent'.op = "create" /\ lastEvent'.ok /\ IsTempId(lastEvent'.id)
        /\ IndexOf(Ids, lastEvent'.id) # 0) =>
       LET k == IndexOf(Ids, lastEvent'.id)
       IN /\ Len(originalData') = Len(originalData)
          /\ Items'[k] = pending[lastEvent'.call].created
          /\ IndexOf(Ids', lastEvent'.id) = 0
          /\ \A j \in 1..Len(originalData) : j # k => Items'[j] = Items[j]]_vars

\* A create has succeeded for the blank row of a list with a loaded row.
C6_Witness ==
  /\ lastEvent.op = "create" /\ lastEvent.ok /\ IsTempId(lastEvent.id)
  /\ Len(originalData) = 2
  /\ Ids[1] = Num(2) /\ Ids[2] = Num(1)
  /\ Sentinels = {}

\* The blank row of the collection has both its category and its item.
SentinelComplete ==
  \E k \in Sentinels : Truthy(Items[k].category) /\ Truthy(Items[k].item)

\* C7 as stated: when a create fails for the blank row, the blank row stays
\* in the canonical collection with its temporary id and its values, and
\* the next blur of a field of that row, its category and item being
\* filled in, issues a create again.
C7_RetryOnAnyBlur ==
  [][/\ (lastEvent'.op = "create" /\ ~lastEvent'.ok) => Items' = Items
     /\ (/\ lastEvent.op = "create" /\ ~lastEvent.ok /\ IsTempId(lastEvent.id)
         /\ lastEvent'.op = "blur" /\ lastEvent'.id = lastEvent.id
         /\ SentinelComplete') =>
          lastEvent'.issued = "create"]_vars

\* C7: when a create fails for the blank row, the blank row stays in the
\* canonical collection with its temporary id and its values, and the next
\* blur of that row that changes a field, leaving category and item filled
\* in, issues a create again.
C7_RetryOnChangedBlur ==
  [][/\ (lastEvent'.op = "create" /\ ~lastEvent'.ok) => Items' = Items
     /\ (/\ lastEvent.op = "create" /\ ~lastEvent.ok /\ IsTempId(lastEvent.id)
         /\ lastEvent'.op = "blur" /\ lastEvent'.id = lastEvent.id
         /\ Items' # Items
         /\ SentinelComplete') =>
          /\ lastEvent'.issued = "create"
          /\ pending'[Len(pending')].kind = "create"
          /\ pending'[Len(pending')].payload.category
               = Items'[IndexOf(Ids', lastEvent'.id)].category]_vars

\* A create was issued again by a blur of the blank row that followed a
\* failed create; the blank row is still in the collection.
C7_Witness ==
  /\ lastEvent.op = "blur" /\ lastEvent.issued = "create"
  /\ lastEvent.field = "unitCost"
  /\ errorBanner = NoBanner
  /\ SentinelComplete
  /\ Len(pending) = 1 /\ pending[1].result = ""
  /\ nextId = scope.loaded + 1
  /\ \E k \in Sentinels : Items[k].unitCost = Num(0)

\* C8: adding the blank row issues no call and makes the canonical
\* collection one longer; the events that save nothing leave its length
\* and the calls in flight as they are; deleting the blank row issues no
\* call, changes nothing in the store and makes the collection one
\* shorter.  So a blank row added and deleted before a field save costs no
\* call and leaves the collection at the length it had.
C8_AddThenDelete ==
  [][/\ (lastEvent'.op = "add" /\ lastEvent'.ok) =>
          /\ Len(originalData') = Len(originalData) + 1
          /\ Len(pending') = Len(pending)
     /\ (lastEvent'.op \in {"edit", "done", "blur", "filter"}
           /\ lastEvent'.issued = "none") =>
          /\ Len(originalData') = Len(originalData)
          /\ Len(pending') = Len(pending)
     /\ (lastEvent'.op = "delete" /\ IsTempId(lastEvent'.id)) =>
          /\ Len(originalData') = Len(originalData) - 1
          /\ Sentinels' = {}
          /\ Len(pending') = Len(pending)
          /\ storeIds' = storeIds /\ nextId' = nextId]_vars

\* The blank row was deleted before anything was saved: the collection is
\* the loaded one and the store was never called.
C8_Witness ==
  /\ lastEvent.op = "delete" /\ IsTempId(lastEvent.id)
  /\ Len(originalData) = scope.loaded /\ scope.loaded = 1
  /\ pending = <<>> /\ nextId = scope.loaded + 1
  /\ clock = 2

\* The rendered rows that are in edit mode.
EditingRows == {i \in 1..Len(tbody) : rows[tbody[i]].inputs.has}

\* C9: an Edit click on a row while another row is in edit mode (editing
\* the item it shows) leaves exactly one row of the rendered table in edit
\* mode, with its inputs: the row clicked, which the edit state designates;
\* the other row is in display mode.
C9_SwitchRow ==
  [][(/\ lastEvent'.op = "edit"
      /\ EditingRows # {}
      /\ \A i \in EditingRows :
           /\ rows[tbody[i]].shown = rows[tbody[i]].bound
           /\ currentEditingRow = tbody[i]) =>
       /\ Cardinality(EditingRows') = 1
       /\ \A i \in EditingRows' :
            /\ heap'[rows'[tbody'[i]].bound].id = lastEvent'.id
            /\ currentEditingRow' = tbody'[i]]_vars

\* C10: when a save issued from the row in edit mode completes (update or
\* create, succeeded or failed), the row at that position of the rendered
\* table is still in edit mode with its inputs and the edit state
\* designates it.
C10_StillEditing ==
  [][(/\ lastEvent'.op \in {"update", "create"}
      /\ pending[lastEvent'.call].row = currentEditingRow
      /\ \E i \in EditingRows : tbody[i] = currentEditingRow) =>
       \E i \in EditingRows' :
         /\ tbody'[i] = currentEditingRow'
         /\ tbody[i] = currentEditingRow]_vars

\* C11: while a save of a field of a saved item is in flight, no blur
\* issues a second save of the same field of the same item.
C11_NoSecondSave ==
  [][(lastEvent'.op = "blur" /\ lastEvent'.issued = "update") =>
       \A i \in InFlight("update") :
         ~(pending[i].id = lastEvent'.id /\ AppField(pending[i]) = lastEvent'.field)]_vars

\* C12: the completion of a successful update of a field of a saved item
\* writes the saved value into that field of the canonical record and
\* leaves every other field, every other record and the other saves in
\* flight as they are, and nothing else changes the canonical records.  So
\* when saves of two different fields of one item are in flight together
\* and both succeed, the canonical record holds both values after both
\* completions, in whichever order they arrive.
C12_BothFieldsKept ==
  [][IF lastEvent'.op = "update" /\ lastEvent'.ok /\ IndexOf(Ids, lastEvent'.id) # 0
       THEN LET c == pending[lastEvent'.call]
                k == IndexOf(Ids, lastEvent'.id)
                others == RemoveAt(pending, lastEvent'.call)
            IN /\ Items' = [Items EXCEPT ![k] = Put(@, lastEvent'.field, c.value)]
               /\ Len(pending') = Len(others)
               /\ \A i \in 1..Len(others) :
                    /\ pending'[i].id = others[i].id
                    /\ pending'[i].field = others[i].field
                    /\ pending'[i].value = others[i].value
                    /\ pending'[i].result = others[i].result
     ELSE Items' = Items]_vars

\* The later of two saves of different fields of one item, both answered
\* with success, has completed first: the canonical record holds its value
\* and the earlier save is still to complete.
C12_Witness ==
  /\ lastEvent.op = "update" /\ lastEvent.ok /\ lastEvent.call = 2
  /\ Len(pending) = 1
  /\ pending[1].kind = "update" /\ pending[1].result = "ok"
  /\ pending[1].id = lastEvent.id
  /\ AppField(pending[1]) # lastEvent.field
  /\ Get(Items[IndexOf(Ids, lastEvent.id)], lastEvent.field) = Num(0)
  /\ pending[1].value = Num(0)

\* The view as applyFilters leaves it, before renderTable sorts it.
FilteredView == applyFilters(Cur).filteredData

\* The lower-cased text of a value; a value that is no string has none.
LowerText(v) == IF IsString(v) THEN ToLowerCase(v.s) ELSE <<>>

\* p occurs in s.
Occurs(p, s) == \E i \in 1..(Len(s) - Len(p) + 1) : \A k \in 1..Len(p) : s[i + k - 1] = p[k]

\* The three filter predicates, for the current state of the controls.
SatisfiesSearch(item) ==
  LET term == ToLowerCase(Trim(searchInput))
  IN term = <<>> \/ Occurs(term, LowerText(item.item)) \/ Occurs(term, LowerText(item.category))

SatisfiesCategory(item) == categoryFilter = <<>> \/ item.category = Str(categoryFilter)

SatisfiesRequired(item) ==
  ~requiredFilter \/ (LowerText(item.required) # <<>> /\ LowerText(item.required)[1] = "y")

Satisfies(o) ==
  SatisfiesSearch(heap[o]) /\ SatisfiesCategory(heap[o]) /\ SatisfiesRequired(heap[o])

\* C13: applyFilters sets the view to the subsequence of originalData, in
\* the order of originalData, of the items that satisfy the search, the
\* category and the required predicate together.
C13_FilterSubsequence == FilteredView = SelectSeq(originalData, Satisfies)

\* A filter change with all three filters set has kept two of three
\* items: one is dropped by the required filter alone.
C13_Witness ==
  /\ lastEvent.op = "filter"
  /\ Trim(searchInput) # <<>> /\ categoryFilter # <<>> /\ requiredFilter
  /\ Len(originalData) = 3
  /\ FilteredView = <<originalData[1], originalData[3]>>
  /\ SatisfiesSearch(heap[originalData[2]]) /\ SatisfiesCategory(heap[originalData[2]])
  /\ {filteredData[i] : i \in 1..Len(filteredData)} = {originalData[1], originalData[3]}

\* The ids of the items of the view, and of the items of the canonical
\* collection that satisfy the filters.
ViewIds == {heap[filteredData[i]].id : i \in 1..Len(filteredData)}
MatchingIds ==
  {heap[originalData[i]].id : i \in {j \in 1..Len(originalData) : Satisfies(originalData[j])}}

\* C14: after the completion of a successful create, update or delete
\* (and after the removal of the blank row, which needs no call) the view
\* holds the items of originalData that satisfy the filters and no others.
C14_ViewFollowsMutation ==
  [][(/\ lastEvent'.ok
      /\ \/ lastEvent'.op \in {"create", "update"}
         \/ lastEvent'.op = "delete" /\ (lastEvent'.call # 0 \/ IsTempId(lastEvent'.id))) =>
       ViewIds' = MatchingIds']_vars

\* The ids of the items of the rendered rows, from top to bottom.
RenderedIds ==
  LET Item(r) == rows[r].shown # NoObj
      shownRows == SelectSeq(tbody, Item)
  IN [i \in 1..Len(shownRows) |-> heap[rows[shownRows[i]].shown].id]

\* The ids of the view computed from the canonical collection, the filter
\* controls and the sort state alone; it is what a change of a filter
\* control renders.
RecomputedIds ==
  LET view == sortData(applyFilters(Cur)).filteredData
  IN [i \in 1..Len(view) |-> heap[view[i]].id]

\* C15: the rendered row order is a function of originalData, the filter
\* state and the sort state: in every state reached by header clicks and
\* filter changes the rows are in the order computed from those three
\* alone, which is the order a history ending with a filter change shows
\* for them.
C15_ViewIsFunction == RenderedIds = RecomputedIds

\* The ids of the items of the view, in the order of the view.
ViewOrder == [i \in 1..Len(filteredData) |-> heap[filteredData[i]].id]

\* Two items have equal sort keys: equal numbers, or else equal strings
\* once lower-cased.
EqualKeys(a, b, key) ==
  LET va == SortValue(a, key)
      vb == SortValue(b, key)
  IN IF IsNumber(va) /\ IsNumber(vb) THEN va.n = vb.n
     ELSE ToLowerCase(JsString(va)) = ToLowerCase(JsString(vb))

\* The items at two positions of the view have equal sort keys.
Ties(i, j, sort) == EqualKeys(heap[filteredData[i]], heap[filteredData[j]], sort.key)

\* C16: a header click sorts the view so that two items whose sort keys
\* compare equal stay in the relative order they had in the view before
\* the click, in ascending and in descending direction.
C16_StableSort ==
  [][lastEvent'.op = "sort" =>
       \A i, j \in 1..Len(filteredData) :
         (i < j /\ Ties(i, j, currentSort')) =>
           IndexOf(ViewOrder', ViewOrder[i]) < IndexOf(ViewOrder', ViewOrder[j])]_vars

\* A second click on the Category header has sorted three items in
\* descending order: the two items of category 'V' come first, still in the
\* order they had (ids 1, 3), and differ in other columns.
C16_Witness ==
  /\ lastEvent.op = "sort" /\ currentSort = [key |-> "category", asc |-> FALSE]
  /\ ViewOrder = <<Num(1), Num(3), Num(2)>>
  /\ Ties(1, 2, currentSort) /\ ~Ties(2, 3, currentSort)
  /\ heap[filteredData[1]].item # heap[filteredData[2]].item

\* q in reverse order.
Reverse(q) == [i \in 1..Len(q) |-> q[Len(q) + 1 - i]]

\* No two items of the view have equal sort keys for a column.
DistinctKeys(key) ==
  \A i, j \in 1..Len(filteredData) :
    i # j => ~EqualKeys(heap[filteredData[i]], heap[filteredData[j]], key)

\* C17 as stated: two clicks in a row on the same header leave the rows in
\* the reverse of the order the first click left them in.
C17_TwiceIsReverse ==
  [][(lastEvent.op = "sort" /\ lastEvent'.op = "sort"
        /\ lastEvent'.field = lastEvent.field) =>
       RenderedIds' = Reverse(RenderedIds)]_vars

\* C17: two clicks in a row on the same header leave the rows in the
\* reverse of the order the first click left them in, when no two items of
\* the view have equal sort keys for that column.
C17_TwiceIsReverseOfDistinct ==
  [][(lastEvent.op = "sort" /\ lastEvent'.op = "sort"
        /\ lastEvent'.field = lastEvent.field
        /\ DistinctKeys(lastEvent.field)) =>
       /\ RenderedIds' = Reverse(RenderedIds)
       /\ ViewOrder' = Reverse(ViewOrder)]_vars

\* The Unit Cost header was clicked twice in a row on three items of
\* different unit costs (one of them missing): the rows are in descending
\* order, which is not the order of the ids.
C17_Witness ==
  /\ lastEvent.op = "sort"
  /\ currentSort = [key |-> "unitCost", asc |-> FALSE]
  /\ Len(filteredData) = 3
  /\ DistinctKeys("unitCost")
  /\ RenderedIds = ViewOrder
  /\ heap[filteredData[1]].unitCost = Num(5)
  /\ heap[filteredData[2]].unitCost = Num(3)
  /\ heap[filteredData[3]].unitCost = Null
  /\ ViewOrder # <<Num(3), Num(2), Num(1)>>

\* C18: a click on the header of the current sort field flips the
\* direction and keeps the field; a click on the header of another field
\* makes it the sort field, ascending; no other event changes the sort
\* state.
C18_SortState ==
  [][IF lastEvent'.op = "sort"
       THEN currentSort' =
              IF lastEvent'.field = currentSort.key
                THEN [key |-> currentSort.key, asc |-> ~currentSort.asc]
              ELSE [key |-> lastEvent'.field, asc |-> TRUE]
     ELSE currentSort' = currentSort]_vars

\* The Category header was clicked while the list was sorted by id in
\* descending order, with a search term typed: the sort is by category,
\* ascending.
C18_Witness ==
  /\ lastEvent.op = "sort" /\ lastEvent.field = "category"
  /\ currentSort = [key |-> "category", asc |-> TRUE]
  /\ searchInput # <<>>
  /\ Len(filteredData) = 2
  /\ ViewOrder = <<Num(2), Num(1)>>
  /\ Ties(1, 2, currentSort)

\* unitCost x (quantity, or 1 when there is none); no unit cost counts 0.
Product(item) ==
  (IF IsNumber(item.unitCost) THEN item.unitCost.n ELSE 0)
    * (IF IsNumber(item.quantity) THEN item.quantity.n ELSE 1)

\* C19: while the sort field is the sub-total column the items of the view
\* are in the order of unitCost x (quantity or 1), ascending or descending
\* as the sort state says, whatever their stored subTotal.
C19_SortByProduct ==
  currentSort.key = "subTotal" =>
    \A i, j \in 1..Len(filteredData) :
      i < j =>
        IF currentSort.asc
          THEN Product(heap[filteredData[i]]) <= Product(heap[filteredData[j]])
        ELSE Product(heap[filteredData[i]]) >= Product(heap[filteredData[j]])

\* C20: the total cost of the summary is the sum of unitCost x (quantity
\* or 1) over the items of the view, also for the items that have a stored
\* subTotal.
C20_TotalIsSumOfProducts ==
  totalCost =
    formatCurrency(
      Num(SumSeq([i \in 1..Len(filteredData) |-> Product(heap[filteredData[i]])])), TRUE)

\* The number of saved items in a list of objects.
SavedCount(list) ==
  Cardinality({i \in 1..Len(list) : ~IsTempId(heap[list[i]].id)})

\* The sum of calculateSubTotal over the objects of the view, the blank row
\* included.
ViewCost ==
  SumSeq([i \in 1..Len(filteredData) |-> calculateSubTotal(heap[filteredData[i]])])

\* C21: after every handled event the displayed total count is the number
\* of saved items of the canonical collection, the displayed visible count
\* is the number of saved items of the view, and the displayed total cost
\* is the sum of the sub-totals of the items of the view, the blank row with
\* the unit cost and quantity entered so far included.
C21_SummaryUpToDate ==
  /\ totalCount = SavedCount(originalData)
  /\ visibleCount = SavedCount(filteredData)
  /\ totalCost = formatCurrency(Num(ViewCost), TRUE)

\* What a repository function may return: the success values and the
\* failure value ([] / null / false) of each.
ReturnKinds(op) ==
  CASE op = "fetchAllItems" -> {"items"}
    [] op = "deleteItem" -> {"true", "false"}
    [] OTHER -> {"item", "null"}

\* The failure value of a repository function.
FailureKind(op) ==
  CASE op = "fetchAllItems" -> "items"
    [] op = "deleteItem" -> "false"
    [] OTHER -> "null"

\* C22: whatever the store call does (it answers with rows, with no data,
\* with an error, with something that cannot be read, or it rejects), each
\* repository function of the list page returns one of its values and
\* throws nothing; when the call reported an error, rejected or could not be
\* read it returns its failure value ([] / null / false).
C22_RepositoryNeverThrows ==
  repo.op \in RepoOps =>
    /\ ~repo.result.threw
    /\ repo.result.kind \in ReturnKinds(repo.op)
    /\ repo.answer.kind \in {"error", "reject", "undefined"} =>
         /\ repo.result.kind = FailureKind(repo.op)
         /\ repo.result.items = <<>>

\* deleteItem, whose store call rejected, returned false after showing the
\* banner of the catch block.
C22_Witness ==
  /\ repo.op = "deleteItem"
  /\ repo.answer.kind = "reject"
  /\ repo.result = Returned("false", <<>>, MsgUnexpected)

\* C23: every failed repository operation makes the handler that called it
\* show an error banner, a store answer without error and without row
\* included.  On the list page: the continuation of a create, of an update
\* or of a delete whose call did not succeed leaves a banner.
C23_FailureShowsBanner ==
  [][(/\ lastEvent'.op \in {"create", "update", "delete"}
      /\ lastEvent'.call # 0
      /\ ~lastEvent'.ok)
     => errorBanner' # NoBanner]_vars

\* The row element r displays the blank row.
ShowsSentinel(r) == rows[r].shown # NoObj /\ IsTempId(heap[rows[r].shown].id)

\* C24: after a click on "+ Add New Item" that added the blank row, the
\* blank row is the first row of the rendered table, and the row that was
\* put into edit mode is the row that displays it.
C24_SentinelIsFirstRow ==
  (lastEvent.op = "add" /\ lastEvent.ok) =>
    /\ tbody # <<>>
    /\ ShowsSentinel(tbody[1])
    /\ currentEditingRow # NoRow
    /\ ShowsSentinel(currentEditingRow)
    /\ rows[currentEditingRow].inputs.has

\* The view, by value.
ViewItems == [i \in 1..Len(filteredData) |-> heap[filteredData[i]]]

\* A list of items without those of one id.
Without(items, id) ==
  LET Other(item) == item.id # id
  IN SelectSeq(items, Other)

\* C25: deleting a saved item.  When the confirmation is declined no delete
\* call is issued and the canonical collection is unchanged; when the delete
\* call fails the canonical collection and the view are unchanged; only a
\* delete call that succeeded changes the canonical collection, and it
\* removes the items with the id of the call and no other.
C25_DeletePersisted ==
  [][(lastEvent'.op = "delete" /\ ~IsTempId(lastEvent'.id)) =>
       /\ (lastEvent'.call = 0 /\ ~lastEvent'.ok) =>
            pending' = pending /\ Items' = Items
       /\ (lastEvent'.call = 0 /\ lastEvent'.ok) =>
            Len(pending') = Len(pending) + 1 /\ Items' = Items
       /\ (lastEvent'.call # 0 /\ ~lastEvent'.ok) =>
            Items' = Items /\ ViewItems' = ViewItems
       /\ (lastEvent'.call # 0 /\ lastEvent'.ok) =>
            Items' = Without(Items, lastEvent'.id)]_vars

\* A delete call succeeded and removed one of two saved items.
C25_Witness ==
  /\ lastEvent.op = "delete"
  /\ lastEvent.call # 0
  /\ lastEvent.ok
  /\ Len(Items) = 1
  /\ IsNumber(Items[1].id)
  /\ Items[1].id # lastEvent.id
  /\ lastEvent.id.n <= nextId - 1

\* C26: on the item page, ESC pressed in markdown edit mode does what a
\* click on Cancel does: with no change of the text it leaves edit mode,
\* with a change it leaves edit mode when the user confirms (and puts the
\* text held at edit entry back into the textarea).
C26_EscapeIsCancel ==
  [][lastEvent'.op = "escape" =>
       itemPage' = cancelEditing(ItemCur, lastEvent'.ok)]_vars

\* C27: saving markdown on the item page.  A click on Save while the
\* textarea holds the markdown held at edit entry issues no call and shows
\* the view mode; when the save succeeds, currentItem.mdContent is the text
\* that was saved and the page is in view mode showing its rendering; when
\* the save fails, the continuation leaves the page in the mode it is in
\* (edit mode), leaves the textarea alone and enables the Save button.
C27_SaveMarkdown ==
  [][/\ (lastEvent'.op = "save" /\ itemPage.mdTextarea = itemPage.originalMarkdown) =>
          /\ itemPage'.saving = itemPage.saving
          /\ ~itemPage'.editMode
     /\ (lastEvent'.op = "saved" /\ lastEvent'.ok) =>
          /\ itemPage'.currentItem.mdContent = Str(itemPage.saving[1].newMarkdown)
          /\ ~itemPage'.editMode
          /\ itemPage'.mdContentEl =
               renderMarkdown(Str(itemPage.saving[1].newMarkdown))
     /\ (lastEvent'.op = "saved" /\ ~lastEvent'.ok) =>
          /\ itemPage'.editMode = itemPage.editMode
          /\ itemPage'.mdTextarea = itemPage.mdTextarea
          /\ ~itemPage'.saveBtnDisabled]_vars

\* A save failed: the page is in edit mode, the textarea holds the text that
\* was not saved, a banner is shown and Save is enabled.
C27_Witness ==
  /\ lastEvent.op = "saved"
  /\ ~lastEvent.ok
  /\ itemPage.editMode
  /\ itemPage.mdTextarea # itemPage.originalMarkdown
  /\ itemPage.errorBanner = MsgSaveFailed
  /\ ~itemPage.saveBtnDisabled

\* The live preview shows the rendering of the text of the textarea.
PreviewCurrent == itemPage.livePreview = renderMarkdown(Str(itemPage.mdTextarea))

\* C28: each input event of the textarea clears the preview timer that is
\* set and sets a new one, so that at most one preview timer is set at any
\* time; an input event issues no repository call; and once no further input
\* event follows, the timer set last fires and the live preview shows the
\* rendering of the text the textarea then holds.
C28_DebouncedPreview ==
  /\ [](Cardinality(itemPage.timers) <= 1)
  /\ [][lastEvent'.op = "input" =>
          /\ itemPage'.previewDebounceTimer # itemPage.previewDebounceTimer
          /\ itemPage'.timers =
               {[id |-> itemPage'.previewDebounceTimer, due |-> FALSE]}
          /\ itemPage'.saving = itemPage.saving
          /\ pending' = pending]_vars
  /\ \A k \in 1..MaxKeys :
       (itemPage.previewDebounceTimer = k /\ itemPage.timers # {})
         ~> \/ itemPage.previewDebounceTimer > k
            \/ itemPage.timers = {} /\ PreviewCurrent

\* Two input events, the second before the timer of the first fired; the
\* timer of the second fired and the preview shows the final text.
C28_Witness ==
  /\ lastEvent.op = "preview"
  /\ itemPage.previewDebounceTimer = 2
  /\ itemPage.timers = {}
  /\ itemPage.mdTextarea = <<"a">>
  /\ itemPage.livePreview = Marked(<<"a">>)
  /\ itemPage.editMode

\* A value is null or a number that is not negative.
NonNegative(v) == v = Null \/ (IsNumber(v) /\ v.n >= 0)

\* C29: every value inline editing sends to the store, or writes to the
\* canonical collection, for the unit cost or the quantity is null or a
\* number that is not negative.
C29_NoNegativeCost ==
  /\ \A i \in 1..Len(Items) :
       NonNegative(Items[i].unitCost) /\ NonNegative(Items[i].quantity)
  /\ \A i \in 1..Len(pending) :
       /\ pending[i].kind = "update" /\ pending[i].field \in {"unit_cost", "quantity"}
            => NonNegative(pending[i].value)
       /\ pending[i].kind = "create"
            => /\ NonNegative(pending[i].payload.unit_cost)
               /\ NonNegative(pending[i].payload.quantity)

\* The value of an item in the column key, and its lower-cased string form
\* with '' for null and undefined.
Column(o, key) ==
  IF key = "subTotal" THEN Num(calculateSubTotal(heap[o])) ELSE Get(heap[o], key)

ColumnText(o, key) ==
  IF IsNullish(Column(o, key)) THEN <<>> ELSE ToLowerCase(JsString(Column(o, key)))

Sign(n) == IF n < 0 THEN 0 - 1 ELSE IF n > 0 THEN 1 ELSE 0

\* C30: for the items of the page, in every column: the comparator of the
\* sort returns the difference of two numbers; otherwise it orders by the
\* lower-cased string forms, null and undefined taken as ''; the descending
\* comparison is the negated ascending one; and on the values of a column
\* it is a total preorder: an item is equal to itself, swapping the
\* arguments negates the sign, and the order is transitive.
C30_ComparatorIsPreorder ==
  \A key \in SortKeys : \A a, b \in DOMAIN heap :
    /\ (IsNumber(Column(a, key)) /\ IsNumber(Column(b, key))) =>
         Compare(heap[a], heap[b], key, TRUE) = Column(a, key).n - Column(b, key).n
    /\ ~(IsNumber(Column(a, key)) /\ IsNumber(Column(b, key))) =>
         Compare(heap[a], heap[b], key, TRUE) =
           (IF StrLess(ColumnText(a, key), ColumnText(b, key)) THEN 0 - 1
            ELSE IF StrLess(ColumnText(b, key), ColumnText(a, key)) THEN 1
            ELSE 0)
    /\ Compare(heap[a], heap[b], key, FALSE) = 0 - Compare(heap[a], heap[b], key, TRUE)
    /\ Compare(heap[a], heap[a], key, TRUE) = 0
    /\ Sign(Compare(heap[b], heap[a], key, TRUE)) =
         0 - Sign(Compare(heap[a], heap[b], key, TRUE))
    /\ \A c \in DOMAIN heap :
         (/\ Compare(heap[a], heap[b], key, TRUE) <= 0
          /\ Compare(heap[b], heap[c], key, TRUE) <= 0)
           => Compare(heap[a], heap[c], key, TRUE) <= 0

\* The list sorted by id, descending: the blank row, whose id is a string,
\* is rendered before the saved rows 2 and 1, whose unit costs are 9 and 10.
C30_Witness ==
  /\ lastEvent.op = "sort"
  /\ currentSort = [key |-> "id", asc |-> FALSE]
  /\ Len(filteredData) = 3
  /\ IsTempId(heap[filteredData[1]].id)
  /\ heap[filteredData[2]].id = Num(2)
  /\ heap[filteredData[2]].unitCost = Num(9)
  /\ heap[filteredData[3]].unitCost = Num(10)

\* The number a column holds for a field of the page: the number itself,
\* null for a missing, null or zero field.
StoredNumber(v) == IF v.t = "num" /\ v.n # 0 THEN v ELSE Null

\* C31: transformItem gives every application field the value of its
\* column, nulls included; transformToDb gives category, item, required and
\* notes back unchanged (so a row read and written back keeps them) and
\* writes unitCost, quantity and subTotal as null when they are missing,
\* null or 0 and as the same number otherwise.
C31_Transforms ==
  /\ repo.op = "transformItem" =>
       /\ repo.output.id = repo.input.id
       /\ repo.output.category = repo.input.category
       /\ repo.output.item = repo.input.item
       /\ repo.output.required = repo.input.required
       /\ repo.output.notes = repo.input.notes
       /\ repo.output.unitCost = repo.input.unit_cost
       /\ repo.output.quantity = repo.input.quantity
       /\ repo.output.subTotal = repo.input.sub_total
       /\ repo.output.mdContent = repo.input.md_content
       /\ repo.output.html = repo.input.html
  /\ repo.op = "transformToDb" =>
       /\ repo.output.category = repo.input.category
       /\ repo.output.item = repo.input.item
       /\ repo.output.required = repo.input.required
       /\ repo.output.notes = repo.input.notes
       /\ repo.output.unit_cost = StoredNumber(repo.input.unitCost)
       /\ repo.output.quantity = StoredNumber(repo.input.quantity)
       /\ repo.output.sub_total = StoredNumber(repo.input.subTotal)
  /\ repo.op = "transformBack" =>
       /\ repo.output.category = repo.input.category
       /\ repo.output.item = repo.input.item
       /\ repo.output.required = repo.input.required
       /\ repo.output.notes = repo.input.notes
       /\ repo.output.unit_cost = StoredNumber(repo.input.unit_cost)
       /\ repo.output.quantity = StoredNumber(repo.input.quantity)
       /\ repo.output.sub_total = StoredNumber(repo.input.sub_total)

\* transformToDb was applied to an item with unit cost 0, a quantity that
\* is missing, no required value and a stored sub-total: the payload has no
\* unit cost and no quantity and keeps the sub-total.
C31_Witness ==
  /\ repo.op = "transformToDb"
  /\ repo.input.unitCost = Num(0)
  /\ repo.input.quantity = Undefined
  /\ repo.input.required = Null
  /\ repo.input.subTotal = Num(7)
  /\ repo.output.unit_cost = Null
  /\ repo.output.quantity = Null
  /\ repo.output.required = Null
  /\ repo.output.sub_total = Num(7)

\* C32: a blur of a field the user did not modify issues no repository
\* call and changes neither the canonical collection nor the view, whatever
\* the loaded record holds.  In sessions where every blur leaves the input
\* as enterEditMode (or a revert) filled it, no blur issues a call.
C32_UnchangedBlurIsSilent ==
  [][lastEvent'.op = "blur" =>
       /\ lastEvent'.issued = "none"
       /\ pending' = pending
       /\ Items' = Items
       /\ ViewItems' = ViewItems]_vars

\* The distinct non-empty categories of the canonical collection.
PresentCategories ==
  { Items[i].category.s : i \in { j \in 1..Len(Items) : Truthy(Items[j].category) } }

\* C33: after a successful create, update or delete the options of the
\* category filter (and of the category autocomplete list, filled from the
\* same values) are exactly the distinct non-empty categories present in
\* originalData.
C33_CategoryOptionsCurrent ==
  (/\ lastEvent.op \in {"create", "update", "delete"}
   /\ lastEvent.call # 0
   /\ lastEvent.ok)
  => categoryOptions = PresentCategories

\* C34: whenever the edit state designates a row, that row is one of the
\* rows of the rendered table and shows its edit inputs: no re-render
\* leaves currentEditingRow on a row that was replaced.
C34_EditingRowRendered ==
  currentEditingRow # NoRow =>
    /\ Attached(currentEditingRow)
    /\ rows[currentEditingRow].inputs.has

\* C35: while a blank row exists in originalData it is in the derived view,
\* whatever the search text and the filters are.
C35_SentinelInView ==
  \A i \in Sentinels : \E j \in 1..Len(filteredData) : ViewItems[j].id = Ids[i]

\* C36: each item of the view has the same field values as the item of
\* originalData that has its id, also when the view was recomputed between
\* the issue and the completion of a field save.
C36_ViewMatchesCanonical ==
  \A j \in 1..Len(filteredData) : \A i \in 1..Len(originalData) :
    Ids[i] = ViewItems[j].id => Items[i] = ViewItems[j]

\* C37: one blank row yields at most one stored record: while a create for
\* the blank row is in flight, a blur of another of its fields issues no
\* second create.
C37_OneCreateInFlight ==
  Cardinality(InFlight("create")) <= 1

\* The ids of the saved records of the canonical collection.
PersistedIds == { Ids[i].n : i \in { j \in 1..Len(Ids) : Ids[j].t = "num" } }

\* C38: once every call has completed, the ids of the saved records in
\* originalData are the ids the store holds, also when a blank row was
\* discarded or a record deleted while a call for it was in flight.
C38_IdsMatchStore ==
  pending = <<>> => PersistedIds = storeIds

\* C39: creation keeps the numbers of the blank row: the record a create
\* sends to the store carries the unit cost and the quantity the blank row
\* holds, a 0 included, and the sub-total of the record a successful create
\* returns is the sub-total the blank row had.
C39_CreateKeepsNumbers ==
  [][/\ (lastEvent'.op = "blur" /\ lastEvent'.issued = "create") =>
          /\ pending'[Len(pending')].payload.unit_cost
               = heap'[pending'[Len(pending')].item].unitCost
          /\ pending'[Len(pending')].payload.quantity
               = heap'[pending'[Len(pending')].item].quantity
     /\ (lastEvent'.op = "create" /\ lastEvent'.call # 0 /\ lastEvent'.ok) =>
          calculateSubTotal(pending[lastEvent'.call].created)
            = calculateSubTotal(heap[pending[lastEvent'.call].item])]_vars

\* C40: on the item page, whenever no save is in flight and the page is in
\* view mode, the markdown shown is the rendering of currentItem.mdContent
\* and currentItem.mdContent is the md_content the store holds; and while a
\* save is in flight the page stays in edit mode.
C40_DetailPageConsistent ==
  /\ (itemPage.listening /\ itemPage.saving = <<>> /\ ~itemPage.editMode) =>
       /\ itemPage.mdContentEl = renderMarkdown(itemPage.currentItem.mdContent)
       /\ itemPage.currentItem.mdContent = itemPage.stored
  /\ itemPage.saving # <<>> => itemPage.editMode

====
